---------------------------- MODULE Spec2Model ----------------------------
(***************************************************************************)
(* Interview Mate: the interview form (components/InterviewForm.tsx), the  *)
(* view controller (App.tsx), the record store client (services/db.ts),    *)
(* the summary requestor (services/geminiService.ts) and the record list   *)
(* (components/InterviewList.tsx), as one state machine.                   *)
(*                                                                         *)
(* Text values (names, answers, queries) are sequences of UTF-16 code      *)
(* units, so that trimming, lower-casing, splitting and the Hangul         *)
(* arithmetic are computed, not assumed.  Opaque texts that the code only  *)
(* copies or tests for emptiness (summaries, alert messages, ids of        *)
(* stages, sections and questions) are strings.                            *)
(***************************************************************************)
EXTENDS Integers, Sequences, FiniteSets, TLC

(***************************************************************************)
(* Bounds of the model.                                                    *)
(***************************************************************************)
MaxIds == 1
MaxTime == 2
MaxOps == 1
MaxAiCalls == 2

(***************************************************************************)
(* Values.                                                                 *)
(***************************************************************************)
\* answers[k] of a key that was never set (JavaScript undefined)
Undefined == << -1 >>
\* initialData / selectedRecord when there is none (JavaScript undefined)
NoRecord == [id |-> 0]
\* resume when none is attached (JavaScript undefined)
NoResume == "undefined"
\* user of supabase.auth.getUser() when there is no session (null)
NoUser == "null"
\* an idle slot of the table of asynchronous calls
Idle == [kind |-> "idle"]

EmptyText == << >>
TextA == << 65 >>
TextX == << 120 >>
TextSpace == << 32 >>

\* the strings the code shows with alert(), and no alert shown yet
ALERT_NONE == "none"
ALERT_NAME_REQUIRED == "save: candidate name required"
ALERT_TEMP_SAVED == "save: temporarily saved"
ALERT_ANALYZE_NAME_REQUIRED == "analyze: basic info required"
ALERT_ENV_MISSING == "saveRecord: supabase environment variables missing"
ALERT_LOGIN_REQUIRED == "saveRecord: login required"
ALERT_SAVE_FAILED == "saveRecord: save failed"
ALERT_LOAD_NOT_FOUND == "edit: record cannot be loaded"
ALERT_LOAD_FAILED == "edit: loading the record failed"
ALERT_DELETE_FAILED == "delete: error while deleting"

\* the fixed strings analyzeInterview returns, and a text of the collaborator
SUMMARY_NO_KEY == "API Key is missing. Please configure your environment."
SUMMARY_NOTHING == "No interview notes recorded to analyze."
SUMMARY_EMPTY_RESPONSE == "Could not generate summary."
SUMMARY_ERROR == "An error occurred while communicating with the AI assistant."
SUMMARY_TEXT == "generated summary"

(***************************************************************************)
(* Static configuration: Stage / Section / Question.                       *)
(***************************************************************************)
COND_TRUE == "hasSushiExperience === true"
COND_FALSE == "hasSushiExperience === false"
COND_OTHER == "hasOtherExperience === true"

Section(id, condition, notices, requireConsent, questions) ==
    [id |-> id, condition |-> condition, notices |-> notices,
     requireConsent |-> requireConsent, questions |-> questions]

STANDARD_STAGES ==
    << [id |-> "stage1", sections |->
          << Section("s1", "", << >>, FALSE, << "q1", "q2" >>) >>],
       [id |-> "stage2", sections |->
          << Section("s2a", COND_TRUE, << >>, FALSE, << "q3" >>),
             Section("s2b", COND_FALSE, << >>, FALSE, << "q4" >>),
             Section("s2c", COND_OTHER, << >>, FALSE, << "q5" >>),
             Section("s3", "", << "n0", "n1", "n2" >>, TRUE, << >>),
             Section("s4", "", << "n0", "n1" >>, TRUE, << >>) >>] >>

DEPTH_STAGES ==
    << [id |-> "depth1", sections |->
          << Section("d1", "", << >>, FALSE, << "dq1" >>) >>],
       [id |-> "depth2", sections |->
          << Section("d2", "", << >>, FALSE, << "dq2" >>) >>],
       [id |-> "depth3", sections |->
          << Section("d3", "", << >>, FALSE, << "dq3" >>) >>] >>

StagesOf(type) == IF type = "STANDARD" THEN STANDARD_STAGES ELSE DEPTH_STAGES

\* `notice-${section.id}-${idx}` and `consent-${section.id}`
NoticeKey(sid, idx) ==
    [s3 |-> << "notice-s3-0", "notice-s3-1", "notice-s3-2" >>,
     s4 |-> << "notice-s4-0", "notice-s4-1" >>][sid][idx + 1]

ConsentKey(sid) == [s3 |-> "consent-s3", s4 |-> "consent-s4"][sid]

QuestionIds == { "q1", "q2", "q3", "q4", "q5", "dq1", "dq2", "dq3" }

FlagKeys ==
    { "notice-s3-0", "notice-s3-1", "notice-s3-2", "consent-s3",
      "notice-s4-0", "notice-s4-1", "consent-s4" }

AnswerKeys == QuestionIds \cup FlagKeys

\* the answers map: {} is the map with every key undefined
NoAnswers == [k \in AnswerKeys |-> Undefined]

\* 'true' and 'false', the flag values
StrTrue == << 116, 114, 117, 101 >>
StrFalse == << 102, 97, 108, 115, 101 >>

VARIABLES
    \* App.tsx
    view, selectedRecord, currentStages, currentInterviewType,
    \* InterviewForm.tsx
    basicInfo, answers, resume, aiSummary, expandedQuestions, activeStageId,
    isSaveLoading, isAnalyzeLoading, recordId, pendingFocusId,
    \* InterviewList.tsx
    records, loading, searchTerm,
    \* the remote table, the clock, the environment, uuidv4
    store, now, env, nextId,
    \* the table public.profiles: the role of every user
    profiles,
    \* asynchronous calls in flight, the last alert shown, calls of the
    \* text-generation collaborator
    ops, alertMsg, aiCalls

\* the step shows no alert
NoAlert == alertMsg' = "none"

appVars == << view, selectedRecord, currentStages, currentInterviewType >>
formVars == << basicInfo, answers, resume, aiSummary, expandedQuestions,
               activeStageId, isSaveLoading, isAnalyzeLoading, recordId,
               pendingFocusId >>
listVars == << records, loading, searchTerm >>
worldVars == << store, now, env, nextId, profiles >>
asyncVars == << ops, aiCalls >>
vars == << appVars, formVars, listVars, worldVars, asyncVars,
           alertMsg >>

(***************************************************************************)
(* The form.                                                               *)
(***************************************************************************)
\* stages.find(s => s.id === activeStageId) || stages[0], and its index
\* (0-based, as findIndex)
IndexOfStage(stgs, id) ==
    IF \E i \in 1..Len(stgs) : stgs[i].id = id
    THEN (CHOOSE i \in 1..Len(stgs) :
            /\ stgs[i].id = id
            /\ \A j \in 1..(i - 1) : stgs[j].id # id) - 1
    ELSE 0

stages == StagesOf(currentStages)
activeStageIndex == IndexOfStage(stages, activeStageId)
activeStage == stages[activeStageIndex + 1]

\* mutant: a section with an unrecognized condition is hidden
SectionVisible_UnknownHidden(section, info) ==
    IF section.condition = "" THEN TRUE
    ELSE IF section.condition = COND_TRUE THEN info.hasSushiExperience = TRUE
    ELSE IF section.condition = COND_FALSE THEN info.hasSushiExperience = FALSE
    ELSE FALSE

\* the section filter of the render and of the Tab handler
SectionVisible(section, info) ==
    IF section.condition = "" THEN TRUE
    ELSE IF section.condition = COND_TRUE THEN info.hasSushiExperience = TRUE
    ELSE IF section.condition = COND_FALSE THEN info.hasSushiExperience = FALSE
    ELSE TRUE

\* the sections of the active stage that are rendered
RenderedSections ==
    SelectSeq(activeStage.sections, LAMBDA s : SectionVisible(s, basicInfo))

IsRendered(sid) ==
    \E i \in 1..Len(RenderedSections) : RenderedSections[i].id = sid

SectionById(sid) ==
    LET all == { activeStage.sections[i] : i \in 1..Len(activeStage.sections) }
    IN  CHOOSE s \in all : s.id = sid

\* handleAnswerChange
AnswerChangeResult(prev, questionId, value) ==
    [prev EXCEPT ![questionId] = value]

\* mutant: unchecking a notice leaves the consent flag alone
NoticeChangeResult_NoCascade(prev, section, idx, checked) ==
    [prev EXCEPT ![NoticeKey(section.id, idx)] =
        IF checked THEN StrTrue ELSE StrFalse]

\* mutant: the last notice checked checks the consent flag too
NoticeChangeResult_AutoConsent(prev, section, idx, checked) ==
    LET newValue == IF checked THEN StrTrue ELSE StrFalse
        next == [prev EXCEPT ![NoticeKey(section.id, idx)] = newValue]
    IN  IF ~checked
        THEN [next EXCEPT ![ConsentKey(section.id)] = StrFalse]
        ELSE IF \A i \in 1..Len(section.notices) :
                   next[NoticeKey(section.id, i - 1)] = StrTrue
        THEN [next EXCEPT ![ConsentKey(section.id)] = StrTrue]
        ELSE next

\* the notice checkbox's onChange: the functional update of answers
NoticeChangeResult(prev, section, idx, checked) ==
    LET newValue == IF checked THEN StrTrue ELSE StrFalse
        next == [prev EXCEPT ![NoticeKey(section.id, idx)] = newValue]
    IN  IF ~checked
        THEN [next EXCEPT ![ConsentKey(section.id)] = StrFalse]
        ELSE next

\* mutant: the consent checkbox sets the consent flag only
ConsentChangeResult_NoCascade(prev, section, isChecked) ==
    [prev EXCEPT ![ConsentKey(section.id)] =
        IF isChecked THEN StrTrue ELSE StrFalse]

\* mutant: the consent checkbox sets the flags of every section
ConsentChangeResult_EverySection(prev, section, isChecked) ==
    [k \in AnswerKeys |->
       IF k \in FlagKeys
       THEN (IF isChecked THEN StrTrue ELSE StrFalse)
       ELSE prev[k]]

\* the consent checkbox's onChange: the functional update of answers
ConsentChangeResult(prev, section, isChecked) ==
    LET next == [prev EXCEPT ![ConsentKey(section.id)] =
                     IF isChecked THEN StrTrue ELSE StrFalse]
        noticeKeys == { NoticeKey(section.id, i - 1) :
                          i \in 1..Len(section.notices) }
    IN  [k \in AnswerKeys |->
           IF k \in noticeKeys
           THEN (IF isChecked THEN StrTrue ELSE StrFalse)
           ELSE next[k]]


(***************************************************************************)
(* Mounting and unmounting the form.                                       *)
(***************************************************************************)
\* mutant: the expanded set is replaced by the answered questions
AutoExpand_Replace(expanded, stage, ans) ==
    { q \in QuestionIds :
        /\ \E i \in 1..Len(stage.sections) :
             \E j \in 1..Len(stage.sections[i].questions) :
               stage.sections[i].questions[j] = q
        /\ ans[q] # Undefined
        /\ ans[q] # EmptyText }

\* the auto-expand effect: the expanded set after entering `stage`
AutoExpand(expanded, stage, ans) ==
    expanded \cup
      { q \in QuestionIds :
          /\ \E i \in 1..Len(stage.sections) :
               \E j \in 1..Len(stage.sections[i].questions) :
                 stage.sections[i].questions[j] = q
          /\ ans[q] # Undefined
          /\ ans[q] # EmptyText }

\* basicInfo of a form opened without initialData
DefaultBasicInfo ==
    [name |-> EmptyText, position |-> EmptyText, store |-> EmptyText,
     date |-> EmptyText, hasSushiExperience |-> FALSE]

\* the useState initialisers of InterviewForm, from the props of the first
\* render, followed by the effects of the mount
MountForm(initialData, type, freshId) ==
    LET has == initialData # NoRecord
        ans == IF has THEN initialData.answers ELSE NoAnswers
        first == StagesOf(type)[1]
    IN  /\ basicInfo' =
             IF has
             THEN [name |-> initialData.basicInfo.name,
                   position |-> initialData.basicInfo.position,
                   store |-> initialData.basicInfo.store,
                   date |-> initialData.basicInfo.date,
                   hasSushiExperience |->
                       initialData.basicInfo.hasSushiExperience]
             ELSE DefaultBasicInfo
        /\ answers' = ans
        /\ resume' = IF has THEN initialData.resume ELSE NoResume
        /\ aiSummary' = IF has THEN initialData.aiSummary ELSE ""
        /\ activeStageId' = first.id
        /\ expandedQuestions' = AutoExpand({}, first, ans)
        /\ isSaveLoading' = FALSE
        /\ isAnalyzeLoading' = FALSE
        /\ pendingFocusId' = ""
        /\ recordId' = IF has THEN initialData.id ELSE freshId

\* the form's state once the form is unmounted: there is none
UnmountForm ==
    /\ basicInfo' = DefaultBasicInfo
    /\ answers' = NoAnswers
    /\ resume' = NoResume
    /\ aiSummary' = ""
    /\ activeStageId' = ""
    /\ expandedQuestions' = {}
    /\ isSaveLoading' = FALSE
    /\ isAnalyzeLoading' = FALSE
    /\ pendingFocusId' = ""
    /\ recordId' = 0

\* the list's state once the list is unmounted
UnmountList ==
    /\ records' = << >>
    /\ loading' = FALSE
    /\ searchTerm' = EmptyText

\* InterviewList mounts: no records yet, getRecords() in flight
MountList ==
    /\ records' = << >>
    /\ loading' = TRUE
    /\ searchTerm' = EmptyText

\* an asynchronous call whose form went away: its setState calls do nothing
\* any more; `cancel` marks the calls of a form the user cancelled
Leave(o, cancel) ==
    IF o = Idle THEN Idle
    ELSE [o EXCEPT !.live = FALSE,
                   !.cancelled = o.cancelled \/ (cancel /\ o.live)]

\* a deleteRecord call whose list went away: its setRecords does nothing
LeaveList(o) ==
    IF o # Idle /\ o.kind = "delete" THEN [o EXCEPT !.live = FALSE] ELSE o

\* the view becomes FORM: the form mounts when the list was shown
ShowForm(initialData, type, freshId) ==
    /\ view' = "FORM"
    /\ IF view = "LIST"
       THEN MountForm(initialData, type, freshId) /\ UnmountList
       ELSE UNCHANGED << formVars, listVars >>

\* the view becomes LIST: a mounted form unmounts and the list mounts;
\* opsBase is the table of calls before the calls of the form are detached
ShowList(opsBase, cancel) ==
    /\ view' = "LIST"
    /\ IF view = "FORM"
       THEN /\ UnmountForm
            /\ MountList
            /\ ops' = [i \in DOMAIN opsBase |-> Leave(opsBase[i], cancel)]
       ELSE /\ UNCHANGED << formVars, listVars >>
            /\ ops' = opsBase

(***************************************************************************)
(* App.tsx                                                                 *)
(***************************************************************************)
\* handleNewInterview, from the list's header buttons
HandleNewInterview(type) ==
    /\ view = "LIST"
    /\ nextId <= MaxIds
    /\ selectedRecord' = NoRecord
    /\ currentInterviewType' = type
    /\ currentStages' = type
    /\ ShowForm(NoRecord, type, nextId)
    /\ nextId' = nextId + 1
    /\ ops' = [i \in DOMAIN ops |-> LeaveList(ops[i])]
    /\ UNCHANGED << store, now, env, profiles, aiCalls >>
    /\ NoAlert

\* handleCancel, from the form's header button
HandleCancel ==
    /\ view = "FORM"
    /\ selectedRecord' = NoRecord
    /\ ShowList(ops, TRUE)
    /\ UNCHANGED << currentStages, currentInterviewType, worldVars, aiCalls >>
    /\ NoAlert

\* handleSaveComplete, the form's onSave
HandleSaveComplete(opsBase) ==
    /\ selectedRecord' = NoRecord
    /\ ShowList(opsBase, FALSE)
    /\ UNCHANGED << currentStages, currentInterviewType >>

\* the header logo's onClick: setView('LIST')
LogoClick ==
    /\ view = "FORM"
    /\ ShowList(ops, FALSE)
    /\ UNCHANGED << selectedRecord, currentStages, currentInterviewType,
                    worldVars, aiCalls >>
    /\ NoAlert

(***************************************************************************)
(* InterviewForm.tsx: field edits and checkboxes                           *)
(***************************************************************************)
\* the textarea's onChange of a question of a rendered section
HandleAnswerChange(questionId, value) ==
    /\ view = "FORM"
    /\ questionId \in expandedQuestions
    /\ \E i \in 1..Len(RenderedSections) :
         \E j \in 1..Len(RenderedSections[i].questions) :
           RenderedSections[i].questions[j] = questionId
    /\ answers' = AnswerChangeResult(answers, questionId, value)
    /\ UNCHANGED << appVars, basicInfo, resume, aiSummary, expandedQuestions,
                    activeStageId, isSaveLoading, isAnalyzeLoading, recordId,
                    pendingFocusId, listVars, worldVars, asyncVars >>
    /\ NoAlert

\* toggleQuestion
ToggleQuestion(questionId) ==
    /\ view = "FORM"
    /\ \E i \in 1..Len(RenderedSections) :
         \E j \in 1..Len(RenderedSections[i].questions) :
           RenderedSections[i].questions[j] = questionId
    /\ expandedQuestions' =
         IF questionId \in expandedQuestions
         THEN expandedQuestions \ { questionId }
         ELSE expandedQuestions \cup { questionId }
    /\ UNCHANGED << appVars, basicInfo, answers, resume, aiSummary,
                    activeStageId, isSaveLoading, isAnalyzeLoading, recordId,
                    pendingFocusId, listVars, worldVars, asyncVars >>
    /\ NoAlert

\* a notice checkbox is clicked: e.target.checked is the opposite of what
\* the controlled checkbox shows
NoticeChange(sid, idx) ==
    /\ view = "FORM"
    /\ IsRendered(sid)
    /\ idx + 1 \in 1..Len(SectionById(sid).notices)
    /\ answers' = NoticeChangeResult(answers, SectionById(sid), idx,
                     answers[NoticeKey(sid, idx)] # StrTrue)
    /\ UNCHANGED << appVars, basicInfo, resume, aiSummary, expandedQuestions,
                    activeStageId, isSaveLoading, isAnalyzeLoading, recordId,
                    pendingFocusId, listVars, worldVars, asyncVars >>
    /\ NoAlert

\* the consent checkbox of a section is clicked
ConsentChange(sid) ==
    /\ view = "FORM"
    /\ IsRendered(sid)
    /\ Len(SectionById(sid).notices) > 0
    /\ SectionById(sid).requireConsent
    /\ answers' = ConsentChangeResult(answers, SectionById(sid),
                     answers[ConsentKey(sid)] # StrTrue)
    /\ UNCHANGED << appVars, basicInfo, resume, aiSummary, expandedQuestions,
                    activeStageId, isSaveLoading, isAnalyzeLoading, recordId,
                    pendingFocusId, listVars, worldVars, asyncVars >>
    /\ NoAlert

\* a stage tab is clicked (Jump); the auto-expand effect runs when the
\* active stage changed
SetActiveStageId(id) ==
    /\ view = "FORM"
    /\ \E i \in 1..Len(stages) : stages[i].id = id
    /\ activeStageId' = id
    /\ expandedQuestions' =
         IF id = activeStageId THEN expandedQuestions
         ELSE AutoExpand(expandedQuestions,
                         stages[IndexOfStage(stages, id) + 1], answers)
    /\ UNCHANGED << appVars, basicInfo, answers, resume, aiSummary,
                    isSaveLoading, isAnalyzeLoading, recordId, pendingFocusId,
                    listVars, worldVars, asyncVars >>
    /\ NoAlert

\* the name input's onChange
SetName(value) ==
    /\ view = "FORM"
    /\ basicInfo' = [basicInfo EXCEPT !.name = value]
    /\ UNCHANGED << appVars, answers, resume, aiSummary, expandedQuestions,
                    activeStageId, isSaveLoading, isAnalyzeLoading, recordId,
                    pendingFocusId, listVars, worldVars, asyncVars >>
    /\ NoAlert

\* the "sushi experience" checkbox of the basic information: e.target.checked
\* is the opposite of what the controlled checkbox shows
SushiCheckboxChange ==
    /\ view = "FORM"
    /\ currentInterviewType # "DEPTH"
    /\ basicInfo' = [basicInfo EXCEPT
                       !.hasSushiExperience = ~basicInfo.hasSushiExperience]
    /\ UNCHANGED << appVars, answers, resume, aiSummary, expandedQuestions,
                    activeStageId, isSaveLoading, isAnalyzeLoading, recordId,
                    pendingFocusId, listVars, worldVars, asyncVars >>
    /\ NoAlert

\* the toggle button beside the description of stage2
SushiToggleClick ==
    /\ view = "FORM"
    /\ activeStage.id = "stage2"
    /\ basicInfo' = [basicInfo EXCEPT
                       !.hasSushiExperience = ~basicInfo.hasSushiExperience]
    /\ UNCHANGED << appVars, answers, resume, aiSummary, expandedQuestions,
                    activeStageId, isSaveLoading, isAnalyzeLoading, recordId,
                    pendingFocusId, listVars, worldVars, asyncVars >>
    /\ NoAlert

\* handleFileChange, once the FileReader has loaded the file
HandleFileChange(file) ==
    /\ view = "FORM"
    /\ resume = NoResume
    /\ resume' = file
    /\ UNCHANGED << appVars, basicInfo, answers, aiSummary, expandedQuestions,
                    activeStageId, isSaveLoading, isAnalyzeLoading, recordId,
                    pendingFocusId, listVars, worldVars, asyncVars >>
    /\ NoAlert

\* clearResume
ClearResume ==
    /\ view = "FORM"
    /\ resume # NoResume
    /\ resume' = NoResume
    /\ UNCHANGED << appVars, basicInfo, answers, aiSummary, expandedQuestions,
                    activeStageId, isSaveLoading, isAnalyzeLoading, recordId,
                    pendingFocusId, listVars, worldVars, asyncVars >>
    /\ NoAlert

(***************************************************************************)
(* services/db.ts: the record store client and the remote table            *)
(***************************************************************************)
\* new Date(ms).toISOString() and new Date(iso).getTime()
ToISOString(ms) == [iso |-> ms]
GetTime(iso) == iso.iso

mapFromDb(row) ==
    [id |-> row.id, basicInfo |-> row.basic_info, answers |-> row.answers,
     resume |-> row.resume, aiSummary |-> row.ai_summary,
     createdAt |-> GetTime(row.created_at)]

mapToDb(record) ==
    [id |-> record.id, basic_info |-> record.basicInfo,
     answers |-> record.answers, resume |-> record.resume,
     ai_summary |-> record.aiSummary,
     created_at |-> ToISOString(record.createdAt)]

\* mutant: the row is inserted whatever the table holds
Upsert_Insert(table, dbRecord, uid) ==
    table \cup { [id |-> dbRecord.id, basic_info |-> dbRecord.basic_info,
                  answers |-> dbRecord.answers, resume |-> dbRecord.resume,
                  ai_summary |-> dbRecord.ai_summary,
                  created_at |-> dbRecord.created_at, user_id |-> uid] }

\* .upsert({ ...dbRecord, user_id: user.id }, { onConflict: 'id' }): the
\* row with that id is inserted, or its columns present in the request are
\* updated (an undefined resume is no column of the request)
Upsert(table, dbRecord, uid) ==
    LET old == { r \in table : r.id = dbRecord.id }
        keep == IF old = {} THEN NoResume ELSE (CHOOSE r \in old : TRUE).resume
    IN  (table \ old) \cup
          { [id |-> dbRecord.id, basic_info |-> dbRecord.basic_info,
             answers |-> dbRecord.answers,
             resume |-> IF dbRecord.resume = NoResume THEN keep
                        ELSE dbRecord.resume,
             ai_summary |-> dbRecord.ai_summary,
             created_at |-> dbRecord.created_at, user_id |-> uid] }

(***************************************************************************)
(* services/geminiService.ts                                               *)
(***************************************************************************)
\* getAllQuestions: the questions of INTERVIEW_STAGES of ../constants
AllQuestions ==
    { STANDARD_STAGES[i].sections[j].questions[k] :
        << i, j, k >> \in
          { t \in (1..Len(STANDARD_STAGES)) \X (1..5) \X (1..2) :
              /\ t[2] <= Len(STANDARD_STAGES[t[1]].sections)
              /\ t[3] <= Len(STANDARD_STAGES[t[1]].sections[t[2]].questions) } }

IsWhiteSpace(c) == c \in { 9, 10, 11, 12, 13, 32, 160 }

\* String.prototype.trim gives the empty string
TrimIsEmpty(text) == \A i \in 1..Len(text) : IsWhiteSpace(text[i])

\* hasContent after the loop over Object.entries(record.answers)
HasContent(ans) ==
    \E k \in AnswerKeys :
        /\ ans[k] # Undefined
        /\ ~TrimIsEmpty(ans[k])
        /\ k \in AllQuestions

\* mutant: the notes are sent whether there are any or not
AnalyzePrecheck_NoShortCircuit(record, apiKey) ==
    IF ~apiKey THEN SUMMARY_NO_KEY ELSE "call"

\* analyzeInterview up to its request: the string it returns without calling
\* the text-generation service, or "call" when it calls generateContent
AnalyzePrecheck(record, apiKey) ==
    IF ~apiKey THEN SUMMARY_NO_KEY
    ELSE IF ~HasContent(record.answers) THEN SUMMARY_NOTHING
    ELSE "call"

\* what analyzeInterview returns once generateContent answered with `text`
\* (response.text || ...) or threw
AnalyzeResult(text, threw) ==
    IF threw THEN SUMMARY_ERROR
    ELSE IF text = "" THEN SUMMARY_EMPTY_RESPONSE
    ELSE text

(***************************************************************************)
(* InterviewForm.tsx: Save, Advance, Retreat, Analyze                      *)
(***************************************************************************)
\* the signed-in user of this browser
CurrentUser == "u1"

\* id: 'temp' of handleAnalyze's tempRecord
TempId == -1

\* a Button with isLoading set does not take clicks
ButtonEnabled(isLoading) == ~isLoading

HasFreeSlot == \E i \in DOMAIN ops : ops[i] = Idle
FreeSlot == CHOOSE i \in DOMAIN ops : ops[i] = Idle /\ \A j \in 1..(i - 1) : ops[j] # Idle

\* { ...basicInfo, interviewType: interviewType || 'STANDARD' }
WithInterviewType(info, itype) ==
    [name |-> info.name, position |-> info.position, store |-> info.store,
     date |-> info.date, hasSushiExperience |-> info.hasSushiExperience,
     interviewType |-> itype]

\* initialData?.createdAt || Date.now()
SaveCreatedAt(initialData, time) ==
    IF initialData # NoRecord /\ initialData.createdAt # 0
    THEN initialData.createdAt
    ELSE time

\* the record handleSave builds
SaveRecord ==
    [id |-> recordId,
     basicInfo |-> WithInterviewType(basicInfo, currentInterviewType),
     answers |-> answers, resume |-> resume, aiSummary |-> aiSummary,
     createdAt |-> SaveCreatedAt(selectedRecord, now)]

\* the tempRecord handleAnalyze builds (it has no resume and no aiSummary)
TempRecord ==
    [id |-> TempId, basicInfo |-> basicInfo, answers |-> answers,
     resume |-> NoResume, aiSummary |-> "", createdAt |-> now]

\* mutant: the saved record does not carry the new summary
UpdatedRecord_NoSummary(tempRecord, summary, rid, itype) ==
    [tempRecord EXCEPT !.id = rid,
                       !.basicInfo = WithInterviewType(tempRecord.basicInfo, itype)]

\* the updatedRecord handleAnalyze saves
UpdatedRecord(tempRecord, summary, rid, itype) ==
    [tempRecord EXCEPT !.aiSummary = summary, !.id = rid,
                       !.basicInfo = WithInterviewType(tempRecord.basicInfo, itype)]

\* mutant: the name is not checked
NameMissing_Never(info) == FALSE

\* !basicInfo.name
NameMissing(info) == info.name = EmptyText

\* mutant: handleAnalyze does not catch what saveRecord throws
AfterSaveRecord_NoCatch(i, threw, lastAlert) ==
    LET op == ops[i]
        rest == [ops EXCEPT ![i] = Idle]
    IN  IF op.kind = "save" /\ ~threw /\ op.shouldClose
        THEN /\ HandleSaveComplete(rest)
             /\ alertMsg' = lastAlert
        ELSE /\ alertMsg' = IF op.kind = "save" /\ ~threw
                            THEN ALERT_TEMP_SAVED ELSE lastAlert
             /\ isSaveLoading' = IF op.kind = "save" /\ op.live
                                 THEN FALSE ELSE isSaveLoading
             /\ isAnalyzeLoading' = IF op.kind = "analyze" /\ op.live /\ ~threw
                                    THEN FALSE ELSE isAnalyzeLoading
             /\ ops' = rest
             /\ UNCHANGED << appVars, basicInfo, answers, resume, aiSummary,
                             expandedQuestions, activeStageId, recordId,
                             pendingFocusId, listVars >>

\* what the caller of saveRecord does once saveRecord has returned
\* (threw = FALSE) or thrown, lastAlert being the alert saveRecord showed
AfterSaveRecord(i, threw, lastAlert) ==
    LET op == ops[i]
        rest == [ops EXCEPT ![i] = Idle]
    IN  IF op.kind = "save" /\ ~threw /\ op.shouldClose
        THEN /\ HandleSaveComplete(rest)
             /\ alertMsg' = lastAlert
        ELSE /\ alertMsg' = IF op.kind = "save" /\ ~threw
                            THEN ALERT_TEMP_SAVED ELSE lastAlert
             /\ isSaveLoading' = IF op.kind = "save" /\ op.live
                                 THEN FALSE ELSE isSaveLoading
             /\ isAnalyzeLoading' = IF op.kind = "analyze" /\ op.live
                                    THEN FALSE ELSE isAnalyzeLoading
             /\ ops' = rest
             /\ UNCHANGED << appVars, basicInfo, answers, resume, aiSummary,
                             expandedQuestions, activeStageId, recordId,
                             pendingFocusId, listVars >>

\* handleSave(shouldClose)
HandleSave(shouldClose) ==
    /\ view = "FORM"
    /\ IF NameMissing(basicInfo)
       THEN /\ alertMsg' = ALERT_NAME_REQUIRED
            /\ UNCHANGED << appVars, formVars, listVars, worldVars, asyncVars >>
       ELSE IF ~env.supabase
       THEN \* saveRecord alerts and throws before any request
            /\ alertMsg' = ALERT_ENV_MISSING
            /\ isSaveLoading' = FALSE
            /\ UNCHANGED << appVars, basicInfo, answers, resume, aiSummary,
                            expandedQuestions, activeStageId, isAnalyzeLoading,
                            recordId, pendingFocusId, listVars, worldVars,
                            asyncVars >>
       ELSE \* saveRecord awaits supabase.auth.getUser()
            /\ HasFreeSlot
            /\ isSaveLoading' = TRUE
            /\ ops' = [ops EXCEPT ![FreeSlot] =
                         [kind |-> "save", pc |-> "getUser", live |-> TRUE,
                          cancelled |-> FALSE, rid |-> recordId,
                          shouldClose |-> shouldClose, record |-> SaveRecord,
                          itype |-> currentInterviewType, user |-> NoUser]]
            /\ UNCHANGED << appVars, basicInfo, answers, resume, aiSummary,
                            expandedQuestions, activeStageId, isAnalyzeLoading,
                            recordId, pendingFocusId, listVars, worldVars,
                            aiCalls >>
            /\ NoAlert

\* the header's save button
SaveButtonClick ==
    /\ view = "FORM"
    /\ ButtonEnabled(isSaveLoading)
    /\ HandleSave(FALSE)

\* handleNextStage
HandleNextStage ==
    /\ view = "FORM"
    /\ IF activeStageIndex < Len(stages) - 1
       THEN /\ activeStageId' = stages[activeStageIndex + 2].id
            /\ expandedQuestions' =
                 IF stages[activeStageIndex + 2].id = activeStageId
                 THEN expandedQuestions
                 ELSE AutoExpand(expandedQuestions,
                                 stages[activeStageIndex + 2], answers)
            /\ UNCHANGED << appVars, basicInfo, answers, resume, aiSummary,
                            isSaveLoading, isAnalyzeLoading, recordId,
                            pendingFocusId, listVars, worldVars, asyncVars >>
            /\ NoAlert
       ELSE HandleSave(TRUE)

\* mutant: the previous-stage button goes back to the first stage
HandlePrevStage_ToFirst ==
    /\ view = "FORM"
    /\ activeStageIndex > 0
    /\ activeStageId' = stages[1].id
    /\ expandedQuestions' =
         IF stages[1].id = activeStageId
         THEN expandedQuestions
         ELSE AutoExpand(expandedQuestions, stages[1], answers)
    /\ UNCHANGED << appVars, basicInfo, answers, resume, aiSummary,
                    isSaveLoading, isAnalyzeLoading, recordId, pendingFocusId,
                    listVars, worldVars, asyncVars >>
    /\ NoAlert

\* handlePrevStage (the button is disabled at the first stage)
HandlePrevStage ==
    /\ view = "FORM"
    /\ activeStageIndex > 0
    /\ activeStageId' = stages[activeStageIndex].id
    /\ expandedQuestions' =
         IF stages[activeStageIndex].id = activeStageId
         THEN expandedQuestions
         ELSE AutoExpand(expandedQuestions, stages[activeStageIndex], answers)
    /\ UNCHANGED << appVars, basicInfo, answers, resume, aiSummary,
                    isSaveLoading, isAnalyzeLoading, recordId, pendingFocusId,
                    listVars, worldVars, asyncVars >>
    /\ NoAlert

\* handleAnalyze once analyzeInterview has returned `summary` for the call
\* in slot i: setAiSummary, then saveRecord(updatedRecord) up to its first
\* await
AnalyzeReturned(i, op, summary) ==
    /\ aiSummary' = IF op.live THEN summary ELSE aiSummary
    /\ IF ~env.supabase
       THEN /\ alertMsg' = ALERT_ENV_MISSING
            /\ isAnalyzeLoading' = IF op.live THEN FALSE ELSE isAnalyzeLoading
            /\ ops' = [ops EXCEPT ![i] = Idle]
       ELSE /\ NoAlert
            /\ isAnalyzeLoading' = IF op.live THEN TRUE ELSE isAnalyzeLoading
            /\ ops' = [ops EXCEPT ![i] =
                         [op EXCEPT !.pc = "getUser",
                                    !.record = UpdatedRecord(op.record, summary,
                                                             op.rid, op.itype)]]
    /\ UNCHANGED << appVars, basicInfo, answers, resume, expandedQuestions,
                    activeStageId, isSaveLoading, recordId, pendingFocusId,
                    listVars, worldVars >>

\* handleAnalyze
HandleAnalyze ==
    /\ view = "FORM"
    /\ IF NameMissing(basicInfo)
       THEN /\ alertMsg' = ALERT_ANALYZE_NAME_REQUIRED
            /\ UNCHANGED << appVars, formVars, listVars, worldVars, asyncVars >>
       ELSE LET op == [kind |-> "analyze", pc |-> "ai", live |-> TRUE,
                       cancelled |-> FALSE, rid |-> recordId,
                       shouldClose |-> FALSE, record |-> TempRecord,
                       itype |-> currentInterviewType, user |-> NoUser]
                pre == AnalyzePrecheck(TempRecord, env.apiKey)
            IN  IF pre = "call"
                THEN \* generateContent is awaited
                     /\ HasFreeSlot
                     /\ aiCalls < MaxAiCalls
                     /\ aiCalls' = aiCalls + 1
                     /\ isAnalyzeLoading' = TRUE
                     /\ ops' = [ops EXCEPT ![FreeSlot] = op]
                     /\ UNCHANGED << appVars, basicInfo, answers, resume,
                                     aiSummary, expandedQuestions,
                                     activeStageId, isSaveLoading, recordId,
                                     pendingFocusId, listVars, worldVars >>
                     /\ NoAlert
                ELSE /\ env.supabase => HasFreeSlot
                     /\ AnalyzeReturned(IF HasFreeSlot THEN FreeSlot ELSE 1,
                                        op, pre)
                     /\ aiCalls' = aiCalls

\* the analyze button
AnalyzeButtonClick ==
    /\ view = "FORM"
    /\ ButtonEnabled(isAnalyzeLoading)
    /\ HandleAnalyze

(***************************************************************************)
(* Row level security of public.interview_records and public.profiles.     *)
(* uid is auth.uid() of the request.  The policies of one command are      *)
(* permissive: a row passes when one of them accepts it.                   *)
(***************************************************************************)
Users == { "u1", "u2" }
Roles == { "admin", "manager" }

\* "Admins can do everything": for all, using (exists profile with role admin)
AdminsCanDoEverything(uid) ==
    \E id \in DOMAIN profiles : id = uid /\ profiles[id] = "admin"

\* mutant: a manager policy that accepts every row
ManagersPolicy_AnyRow(uid, row) == TRUE

\* "Managers can view own records": for select, using
ManagersCanViewOwn(uid, row) == uid = row.user_id

\* "Managers can insert own records": for insert, with check
ManagersCanInsertOwn(uid, row) == uid = row.user_id

\* "Managers can update own records": for update, using; a policy without
\* with check applies its using expression to the new row too
ManagersCanUpdateOwn(uid, row) == uid = row.user_id

\* "Managers can delete own records": for delete, using
ManagersCanDeleteOwn(uid, row) == uid = row.user_id

\* select * from interview_records, as uid
SelectRecords(uid, table) ==
    { r \in table : AdminsCanDoEverything(uid) \/ ManagersCanViewOwn(uid, r) }

\* insert into interview_records values (row), as uid: a row the check
\* refuses, or whose id is taken, is an error and nothing is written
InsertRecords(uid, table, row) ==
    IF /\ \A r \in table : r.id # row.id
       /\ AdminsCanDoEverything(uid) \/ ManagersCanInsertOwn(uid, row)
    THEN table \cup { row }
    ELSE table

\* update interview_records set (row) where id = row.id, as uid: the rows
\* the using expressions accept are updated, and the new row must pass too
UpdateRecords(uid, table, row) ==
    LET old == { r \in SelectRecords(uid, table) :
                   /\ r.id = row.id
                   /\ \/ AdminsCanDoEverything(uid)
                      \/ ManagersCanUpdateOwn(uid, r) }
    IN  IF /\ old # {}
           /\ AdminsCanDoEverything(uid) \/ ManagersCanUpdateOwn(uid, row)
        THEN (table \ old) \cup { row }
        ELSE table

\* delete from interview_records where id = id, as uid
DeleteRecords(uid, table, id) ==
    table \ { r \in SelectRecords(uid, table) :
                /\ r.id = id
                /\ \/ AdminsCanDoEverything(uid)
                   \/ ManagersCanDeleteOwn(uid, r) }

\* update profiles set role = role where id = id, as uid:
\* "Users can update own profile", using (auth.uid() = id)
UpdateProfiles(uid, table, id, role) ==
    IF id \in DOMAIN table /\ uid = id
    THEN [table EXCEPT ![id] = role]
    ELSE table

\* upsert(row, { onConflict: 'id' }), as uid: the insert policies check the
\* proposed row; a row with that id must pass the update policies' using,
\* and the row as updated their check
UpsertAllowed(uid, table, dbRecord) ==
    LET new == [user_id |-> uid]
        old == { r \in table : r.id = dbRecord.id }
    IN  /\ AdminsCanDoEverything(uid) \/ ManagersCanInsertOwn(uid, new)
        /\ \A r \in old :
             /\ r \in SelectRecords(uid, table)
             /\ AdminsCanDoEverything(uid) \/ ManagersCanUpdateOwn(uid, r)
             /\ AdminsCanDoEverything(uid) \/ ManagersCanUpdateOwn(uid, new)

(***************************************************************************)
(* Completions of the asynchronous calls                                   *)
(***************************************************************************)
\* ai.models.generateContent answers with a text, or throws
GenerateContentDone(i, text, threw) ==
    /\ ops[i] # Idle
    /\ ops[i].kind = "analyze"
    /\ ops[i].pc = "ai"
    /\ AnalyzeReturned(i, ops[i], AnalyzeResult(text, threw))
    /\ aiCalls' = aiCalls

\* supabase.auth.getUser() answers inside saveRecord
GetUserDone(i, user) ==
    /\ ops[i] # Idle
    /\ ops[i].kind \in { "save", "analyze" }
    /\ ops[i].pc = "getUser"
    /\ IF user = NoUser
       THEN \* alert, and saveRecord returns without a request
            AfterSaveRecord(i, FALSE, ALERT_LOGIN_REQUIRED)
       ELSE /\ ops' = [ops EXCEPT ![i] = [@ EXCEPT !.pc = "upsert",
                                                   !.user = user]]
            /\ UNCHANGED << appVars, formVars, listVars >>
            /\ NoAlert
    /\ UNCHANGED << worldVars, aiCalls >>

\* the upsert request of saveRecord is answered
UpsertDone(i, ok) ==
    /\ ops[i] # Idle
    /\ ops[i].kind \in { "save", "analyze" }
    /\ ops[i].pc = "upsert"
    /\ IF ok /\ UpsertAllowed(ops[i].user, store, mapToDb(ops[i].record))
       THEN /\ store' = Upsert(store, mapToDb(ops[i].record), ops[i].user)
            /\ AfterSaveRecord(i, FALSE, ALERT_NONE)
       ELSE /\ store' = store
            /\ AfterSaveRecord(i, TRUE, ALERT_SAVE_FAILED)
    /\ UNCHANGED << now, env, nextId, profiles, aiCalls >>

(***************************************************************************)
(* InterviewList.tsx and handleEditInterview                               *)
(***************************************************************************)
\* the rows of the table in an order `created_at descending` allows
ListOrderings(table) ==
    { seq \in [1..Cardinality(table) -> table] :
        /\ \A i, j \in 1..Cardinality(table) : i # j => seq[i] # seq[j]
        /\ \A i, j \in 1..Cardinality(table) :
             i < j => GetTime(seq[i].created_at) >= GetTime(seq[j].created_at) }

\* a row as getRecords selects it (no resume column), mapped
ListRecord(row) == mapFromDb([row EXCEPT !.resume = NoResume])

\* loadRecords: getRecords() has answered
GetRecordsDone(failed) ==
    /\ view = "LIST"
    /\ loading
    /\ \E seq \in ListOrderings(SelectRecords(CurrentUser, store)) :
         records' = IF failed THEN << >>
                    ELSE [i \in 1..Len(seq) |-> ListRecord(seq[i])]
    /\ loading' = FALSE
    /\ UNCHANGED << appVars, formVars, searchTerm, worldVars, asyncVars >>
    /\ NoAlert

\* handleEditInterview up to its await, from a card of the list
HandleEditInterview(partialRecord) ==
    /\ view = "LIST"
    /\ \E k \in 1..Len(records) : records[k] = partialRecord
    /\ HasFreeSlot
    /\ currentInterviewType' = partialRecord.basicInfo.interviewType
    /\ currentStages' = partialRecord.basicInfo.interviewType
    /\ ops' = [ops EXCEPT ![FreeSlot] =
                 [kind |-> "edit", pc |-> "load", live |-> FALSE,
                  cancelled |-> FALSE, rid |-> partialRecord.id]]
    /\ UNCHANGED << view, selectedRecord, formVars, listVars, worldVars,
                    aiCalls >>
    /\ NoAlert

\* mutant: setView('FORM') is reached whatever getRecordById returned
GetRecordByIdDone_OpensAnyway(i, failed) ==
    /\ ops[i] # Idle
    /\ ops[i].kind = "edit"
    /\ LET rows == { r \in SelectRecords(CurrentUser, store) : r.id = ops[i].rid }
       IN  IF ~failed /\ Cardinality(rows) = 1
           THEN /\ selectedRecord' = mapFromDb(CHOOSE r \in rows : TRUE)
                /\ ShowForm(mapFromDb(CHOOSE r \in rows : TRUE),
                            currentInterviewType, 0)
                /\ NoAlert
           ELSE /\ alertMsg' = ALERT_LOAD_NOT_FOUND
                /\ selectedRecord' = selectedRecord
                /\ ShowForm(NoRecord, currentInterviewType, 0)
    /\ ops' = [j \in DOMAIN ops |->
                 IF j = i THEN Idle
                 ELSE IF view' = "FORM" THEN LeaveList(ops[j]) ELSE ops[j]]
    /\ UNCHANGED << currentStages, currentInterviewType, worldVars, aiCalls >>

\* getRecordById has answered
GetRecordByIdDone(i, failed) ==
    /\ ops[i] # Idle
    /\ ops[i].kind = "edit"
    /\ LET rows == { r \in SelectRecords(CurrentUser, store) : r.id = ops[i].rid }
       IN  IF ~failed /\ Cardinality(rows) = 1
           THEN /\ selectedRecord' = mapFromDb(CHOOSE r \in rows : TRUE)
                /\ ShowForm(mapFromDb(CHOOSE r \in rows : TRUE),
                            currentInterviewType, 0)
                /\ NoAlert
           ELSE /\ alertMsg' = ALERT_LOAD_NOT_FOUND
                /\ UNCHANGED << view, selectedRecord, formVars, listVars >>
    /\ ops' = [j \in DOMAIN ops |->
                 IF j = i THEN Idle
                 ELSE IF view' = "FORM" THEN LeaveList(ops[j]) ELSE ops[j]]
    /\ UNCHANGED << currentStages, currentInterviewType, worldVars, aiCalls >>

\* time passes
Tick ==
    /\ now < MaxTime
    /\ now' = now + 1
    /\ UNCHANGED << appVars, formVars, listVars, store, env, nextId, profiles,
                    asyncVars >>
    /\ NoAlert

(***************************************************************************)
(* Initial state: the application has started, the list is mounted and its *)
(* getRecords() is in flight; the table holds nothing yet.                 *)
(***************************************************************************)
EnvSet == [supabase : BOOLEAN, apiKey : BOOLEAN]

InitApp ==
    /\ view = "LIST"
    /\ selectedRecord = NoRecord
    /\ currentStages = "STANDARD"
    /\ currentInterviewType = "STANDARD"

InitNoForm ==
    /\ basicInfo = DefaultBasicInfo
    /\ answers = NoAnswers
    /\ resume = NoResume
    /\ aiSummary = ""
    /\ activeStageId = ""
    /\ expandedQuestions = {}
    /\ isSaveLoading = FALSE
    /\ isAnalyzeLoading = FALSE
    /\ pendingFocusId = ""
    /\ recordId = 0

InitList ==
    /\ records = << >>
    /\ loading = TRUE
    /\ searchTerm = EmptyText

InitAsync ==
    /\ ops = [i \in 1..MaxOps |-> Idle]
    /\ aiCalls = 0
    /\ alertMsg = ALERT_NONE

\* the signed-in user has the default role (handle_new_user)
InitProfiles == profiles = [u \in { CurrentUser } |-> "manager"]

(***************************************************************************)
(* The consent / notice checkboxes of a new STANDARD interview.            *)
(***************************************************************************)
InitConsent ==
    /\ InitApp /\ InitNoForm /\ InitList /\ InitAsync /\ InitProfiles
    /\ store = {}
    /\ now = 0
    /\ nextId = MaxIds
    /\ env = [supabase |-> TRUE, apiKey |-> TRUE]

NextConsent ==
    \/ HandleNewInterview("STANDARD")
    \/ \E id \in { "stage1", "stage2" } : SetActiveStageId(id)
    \/ ToggleQuestion("q1")
    \/ HandleAnswerChange("q1", TextX)
    \/ \E sid \in { "s3", "s4" } : \E idx \in 0..2 : NoticeChange(sid, idx)
    \/ \E sid \in { "s3", "s4" } : ConsentChange(sid)

SpecConsent == InitConsent /\ [][NextConsent]_vars

\* every notice key of section sid
NoticeKeysOf(sid) == { NoticeKey(sid, i) : i \in 0..(IF sid = "s3" THEN 2 ELSE 1) }

(* C1: whenever a section's consent flag is 'true', every notice flag of  *)
(* that section is 'true'.                                                *)
C1_ConsentImpliesNotices ==
    \A sid \in { "s3", "s4" } :
        answers[ConsentKey(sid)] = StrTrue
            => \A k \in NoticeKeysOf(sid) : answers[k] = StrTrue

\* a consent flag is 'true' again after one of its notices had been unchecked
\* and re-checked by the consent checkbox, while an answer was edited
C1_Witness ==
    /\ answers[ConsentKey("s3")] = StrTrue
    /\ answers[ConsentKey("s4")] = StrFalse
    /\ answers["notice-s4-0"] = StrTrue
    /\ answers["q1"] = TextX

(* C2: checking a section's consent checkbox sets the consent flag and    *)
(* all its notice flags to 'true'; unchecking one of these notices while   *)
(* the consent flag is 'true' sets that notice flag and the consent flag   *)
(* to 'false' and leaves the section's other notice flags 'true'.          *)
C2_ConsentThenUncheck ==
    [][\A sid \in { "s3", "s4" } :
         /\ (answers[ConsentKey(sid)] # StrTrue /\ ConsentChange(sid))
              => /\ answers'[ConsentKey(sid)] = StrTrue
                 /\ \A k \in NoticeKeysOf(sid) : answers'[k] = StrTrue
         /\ \A k \in NoticeKeysOf(sid) :
              (/\ answers[ConsentKey(sid)] = StrTrue
               /\ answers[k] = StrTrue
               /\ answers'[k] # StrTrue
               /\ \E idx \in 0..2 : NoticeChange(sid, idx))
                => /\ answers'[k] = StrFalse
                   /\ answers'[ConsentKey(sid)] = StrFalse
                   /\ \A o \in NoticeKeysOf(sid) \ { k } :
                        answers'[o] = StrTrue]_vars

\* the 3-notice section after its consent was checked and its second notice
\* unchecked
C2_Witness ==
    /\ answers["consent-s3"] = StrFalse
    /\ answers["notice-s3-1"] = StrFalse
    /\ answers["notice-s3-0"] = StrTrue
    /\ answers["notice-s3-2"] = StrTrue

(***************************************************************************)
(* The form session against the store.                                     *)
(***************************************************************************)
\* C23: unchecking the consent checkbox of a section sets its consent flag
\* and each of its notice flags to 'false' and leaves every other key of
\* answers as it was.
C23_UncheckConsentFrame ==
    [][\A sid \in { "s3", "s4" } :
         (answers[ConsentKey(sid)] = StrTrue /\ ConsentChange(sid))
            => /\ answers'[ConsentKey(sid)] = StrFalse
               /\ \A k \in NoticeKeysOf(sid) : answers'[k] = StrFalse
               /\ \A k \in AnswerKeys \ ({ ConsentKey(sid) } \cup NoticeKeysOf(sid)) :
                    answers'[k] = answers[k]]_vars

\* the consent of the 3-notice section was unchecked: its flags are 'false'
\* while the other section's flags and the answer stand
C23_Witness ==
    /\ answers["consent-s3"] = StrFalse
    /\ \A k \in NoticeKeysOf("s3") : answers[k] = StrFalse
    /\ answers["consent-s4"] = StrTrue
    /\ \A k \in NoticeKeysOf("s4") : answers[k] = StrTrue
    /\ answers["q1"] = TextX

\* C24: checking a notice sets that notice's flag to 'true' and changes no
\* other key of answers; a consent flag becomes 'true' only by its consent
\* checkbox, so checking all the notices of a section does not set it.
C24_CheckNoticeFrame ==
    [][\A sid \in { "s3", "s4" } :
         /\ \A idx \in 0..(IF sid = "s3" THEN 2 ELSE 1) :
              (/\ answers[NoticeKey(sid, idx)] # StrTrue
               /\ NoticeChange(sid, idx))
                 => answers' = [answers EXCEPT ![NoticeKey(sid, idx)] = StrTrue]
         /\ (answers[ConsentKey(sid)] # StrTrue /\ answers'[ConsentKey(sid)] = StrTrue)
              => ConsentChange(sid)]_vars

\* every notice of the 3-notice section was checked one by one, its consent
\* checkbox never: the consent flag is not set
C24_Witness ==
    /\ \A k \in NoticeKeysOf("s3") : answers[k] = StrTrue
    /\ answers["consent-s3"] = Undefined

Init ==
    /\ InitApp /\ InitNoForm /\ InitList /\ InitAsync /\ InitProfiles
    /\ store = {}
    /\ now = 1
    /\ nextId = 1
    /\ env \in { e \in EnvSet : e.apiKey }

Next ==
    \/ HandleNewInterview("STANDARD")
    \/ HandleCancel
    \/ \E v \in { EmptyText, TextA } : SetName(v)
    \/ ToggleQuestion("q1")
    \/ HandleAnswerChange("q1", TextX)
    \/ SaveButtonClick
    \/ HandleNextStage
    \/ AnalyzeButtonClick
    \/ \E i \in 1..MaxOps : \E threw \in BOOLEAN :
         GenerateContentDone(i, SUMMARY_TEXT, threw)
    \/ \E i \in 1..MaxOps : \E u \in { CurrentUser, NoUser } : GetUserDone(i, u)
    \/ \E i \in 1..MaxOps : \E ok \in BOOLEAN : UpsertDone(i, ok)
    \/ \E failed \in BOOLEAN : GetRecordsDone(failed)
    \/ \E k \in 1..Len(records) : HandleEditInterview(records[k])
    \/ \E i \in 1..MaxOps : \E failed \in BOOLEAN : GetRecordByIdDone(i, failed)
    \/ Tick

Spec == Init /\ [][Next]_vars

\* slot i holds a call of saveRecord made by handleSave or handleAnalyze
IsWrite(o) == o # Idle /\ o.kind \in { "save", "analyze" }

(* C3: every save of one form session upserts under the same record id:    *)
(* the id is fixed while the form is open, every call of saveRecord        *)
(* started by the form carries it, and a successful upsert leaves exactly  *)
(* one row with that id and touches no other row.                          *)
C3_OneRecordPerSession ==
    [][/\ (view = "FORM" /\ view' = "FORM") => recordId' = recordId
       /\ \A i \in 1..MaxOps :
            /\ (ops[i] = Idle /\ IsWrite(ops'[i]))
                 => /\ ops'[i].rid = recordId
                    /\ ops'[i].kind = "save" => ops'[i].record.id = recordId
            /\ (IsWrite(ops[i]) /\ IsWrite(ops'[i]))
                 => ops'[i].rid = ops[i].rid
            /\ (IsWrite(ops[i]) /\ UpsertDone(i, TRUE))
                 => /\ ops[i].record.id = ops[i].rid
                    /\ Cardinality({ r \in store' : r.id = ops[i].rid }) = 1
                    /\ { r \in store' : r.id # ops[i].rid }
                         = { r \in store : r.id # ops[i].rid }]_vars

\* a new interview was analyzed and then saved again later with the form
\* still open: the table holds one row, under the form's id
C3_Witness ==
    /\ view = "FORM"
    /\ selectedRecord = NoRecord
    /\ alertMsg = ALERT_TEMP_SAVED
    /\ Cardinality(store) = 1
    /\ \E r \in store : /\ r.id = recordId
                        /\ r.ai_summary = SUMMARY_TEXT
                        /\ GetTime(r.created_at) = 2

(* C4: with an empty candidate name, Save, Advance at the last stage and   *)
(* Analyze write nothing to the store, start no call, ask for no summary,  *)
(* leave every field of the form unchanged and keep the form open.         *)
C4_ValidationErrorMutatesNothing ==
    [][(/\ view = "FORM"
        /\ basicInfo.name = EmptyText
        /\ \/ SaveButtonClick
           \/ (activeStageIndex = Len(stages) - 1 /\ HandleNextStage)
           \/ AnalyzeButtonClick)
         => /\ UNCHANGED << store, ops, aiCalls, formVars, view >>
            /\ alertMsg' \in { ALERT_NAME_REQUIRED,
                               ALERT_ANALYZE_NAME_REQUIRED }]_vars

\* the name was cleared after a record had been stored and notes taken, and
\* Advance at the last stage was refused
C4_Witness ==
    /\ view = "FORM"
    /\ alertMsg = ALERT_NAME_REQUIRED
    /\ basicInfo.name = EmptyText
    /\ activeStageId = "stage2"
    /\ answers["q1"] = TextX
    /\ store # {}

(* C5: every write to the store after the first carries the createdAt of   *)
(* the first write: the created_at of a stored row never changes.          *)
C5_CreatedAtFixed ==
    [][\A r \in store : \A w \in store' :
           w.id = r.id => w.created_at = r.created_at]_vars

\* a new interview is stored, and a second write for the same id is in flight
\* with another createdAt
C5_Witness ==
    /\ view = "FORM"
    /\ selectedRecord = NoRecord
    /\ \E r \in store : \E i \in 1..MaxOps :
         /\ IsWrite(ops[i])
         /\ ops[i].pc = "upsert"
         /\ ops[i].record.id = r.id
         /\ ToISOString(ops[i].record.createdAt) # r.created_at

(* C6: once the form is cancelled, no call of saveRecord started by that   *)
(* form changes the store.                                                 *)
C6_NoWriteAfterCancel ==
    [][\A i \in 1..MaxOps :
          (IsWrite(ops[i]) /\ ops[i].cancelled /\ UpsertDone(i, TRUE))
             => store' = store]_vars

\* the form was cancelled and the upsert of its analysis is still in flight
C6_Witness ==
    /\ view = "LIST"
    /\ store = {}
    /\ \E i \in 1..MaxOps :
         /\ IsWrite(ops[i])
         /\ ops[i].kind = "analyze"
         /\ ops[i].cancelled
         /\ ops[i].pc = "upsert"

(* C8: when the analysis of an open form returns, the form's aiSummary is  *)
(* the returned text; the record handleAnalyze then saves carries that     *)
(* text and the form's record id, and once its upsert succeeds the store   *)
(* holds a row under that id with that text as its summary.                *)
C8_AnalyzePersistsSummary ==
    [][\A i \in 1..MaxOps :
         /\ \A threw \in BOOLEAN :
              (/\ IsWrite(ops[i]) /\ ops[i].live
               /\ GenerateContentDone(i, SUMMARY_TEXT, threw))
                 => aiSummary' = IF threw THEN SUMMARY_ERROR ELSE SUMMARY_TEXT
         /\ (/\ IsWrite(ops'[i]) /\ ops'[i].kind = "analyze"
             /\ ops'[i].pc # "ai" /\ ops'[i].live
             /\ (ops[i] = Idle \/ ops[i].pc = "ai"))
              => /\ ops'[i].record.aiSummary = aiSummary'
                 /\ ops'[i].record.id = recordId'
                 /\ ops'[i].rid = recordId'
         /\ (/\ IsWrite(ops[i]) /\ ops[i].kind = "analyze"
             /\ UpsertDone(i, TRUE))
              => \E r \in store' : /\ r.id = ops[i].rid
                                   /\ r.ai_summary = ops[i].record.aiSummary]_vars

\* an analysis of a new interview has completed and was stored although
\* Save was never confirmed
C8_Witness ==
    /\ view = "FORM"
    /\ selectedRecord = NoRecord
    /\ isAnalyzeLoading = FALSE
    /\ alertMsg = ALERT_NONE
    /\ aiSummary = SUMMARY_TEXT
    /\ \E r \in store : /\ r.id = recordId
                        /\ r.ai_summary = SUMMARY_TEXT
                        /\ GetTime(r.created_at) = 1

(* C9: whenever saveRecord, called by handleSave, ends without having      *)
(* written the record, the form stays open, no success is reported, the    *)
(* form's fields are unchanged and isSaveLoading is false again.           *)
C9_FailedSaveRetryable ==
    [][\A i \in 1..MaxOps :
          (/\ IsWrite(ops[i]) /\ ops[i].kind = "save"
           /\ \/ GetUserDone(i, NoUser)
              \/ UpsertDone(i, FALSE))
             => /\ view' = view
                /\ alertMsg' # ALERT_TEMP_SAVED
                /\ UNCHANGED << basicInfo, answers, resume, aiSummary >>
                /\ ops[i].live => isSaveLoading' = FALSE]_vars

\* the save is confirmed to the user while the table holds nothing
C9_Witness ==
    /\ view = "FORM"
    /\ alertMsg = ALERT_TEMP_SAVED
    /\ store = {}

(***************************************************************************)
(* analyzeInterview under every environment and for both interview types.  *)
(***************************************************************************)
InitAnalyze ==
    /\ InitApp /\ InitNoForm /\ InitList /\ InitAsync /\ InitProfiles
    /\ store = {}
    /\ now = 1
    /\ nextId = 1
    /\ env \in EnvSet

NextAnalyze ==
    \/ \E type \in { "STANDARD", "DEPTH" } : HandleNewInterview(type)
    \/ \E v \in { EmptyText, TextA } : SetName(v)
    \/ \E q \in { "q1", "dq1" } : ToggleQuestion(q)
    \/ \E q \in { "q1", "dq1" } : \E v \in { EmptyText, TextSpace, TextX } :
         HandleAnswerChange(q, v)
    \/ AnalyzeButtonClick
    \/ \E i \in 1..MaxOps : \E text \in { "", SUMMARY_TEXT } :
         \E threw \in BOOLEAN : GenerateContentDone(i, text, threw)
    \/ \E i \in 1..MaxOps : \E u \in { CurrentUser, NoUser } : GetUserDone(i, u)
    \/ \E i \in 1..MaxOps : \E ok \in BOOLEAN : UpsertDone(i, ok)

SpecAnalyze == InitAnalyze /\ [][NextAnalyze]_vars

(* C7: analyzing a record with zero non-empty answers returns the fixed    *)
(* "nothing to analyze" text and never calls the text-generation service,  *)
(* whatever the rest of the record and the environment are.                *)
C7_NothingToAnalyze ==
    [][(/\ view = "FORM"
        /\ basicInfo.name # EmptyText
        /\ \A k \in AnswerKeys : answers[k] \in { Undefined, EmptyText }
        /\ AnalyzeButtonClick)
         => /\ aiSummary' = SUMMARY_NOTHING
            /\ aiCalls' = aiCalls
            /\ \A i \in 1..MaxOps : IsWrite(ops'[i]) => ops'[i].pc # "ai"]_vars

(* C7, amended: analyzing a record with zero non-empty answers never calls *)
(* the text-generation service; it returns the fixed "nothing to analyze"  *)
(* text when the API key is configured and the fixed "API key is missing"  *)
(* text when it is not.                                                    *)
C7_NothingToAnalyzeWithKey ==
    [][(/\ view = "FORM"
        /\ basicInfo.name # EmptyText
        /\ \A k \in AnswerKeys : answers[k] \in { Undefined, EmptyText }
        /\ AnalyzeButtonClick)
         => /\ aiSummary' = IF env.apiKey THEN SUMMARY_NOTHING
                            ELSE SUMMARY_NO_KEY
            /\ aiCalls' = aiCalls
            /\ \A i \in 1..MaxOps : IsWrite(ops'[i]) => ops'[i].pc # "ai"]_vars

\* a form whose only answer was typed and cleared again has been analyzed
\* with the API key configured: no request was made
C7_Witness ==
    /\ view = "FORM"
    /\ env.apiKey
    /\ basicInfo.name = TextA
    /\ answers["q1"] = EmptyText
    /\ \A k \in AnswerKeys \ { "q1" } : answers[k] = Undefined
    /\ aiSummary = SUMMARY_NOTHING
    /\ aiCalls = 0

(***************************************************************************)
(* InterviewList.tsx: the search box and filteredRecords                   *)
(***************************************************************************)
MaxQueryLen == 3
MaxRows == 2

\* String.prototype.toLowerCase / toUpperCase on one UTF-16 code unit of the
\* Basic Latin and Hangul ranges
ToLowerChar(c) == IF c \in 65..90 THEN c + 32 ELSE c
ToUpperChar(c) == IF c \in 97..122 THEN c - 32 ELSE c
ToLower(text) == [i \in 1..Len(text) |-> ToLowerChar(text[i])]

\* String.prototype.includes
Includes(text, part) ==
    \E i \in 0..(Len(text) - Len(part)) :
        SubSeq(text, i + 1, i + Len(part)) = part

RECURSIVE SplitFrom(_, _, _)
\* the non-empty pieces of text between runs of white space, from index i
\* on, cur being the piece read so far
SplitFrom(text, i, cur) ==
    IF i > Len(text)
    THEN (IF cur = << >> THEN << >> ELSE << cur >>)
    ELSE IF IsWhiteSpace(text[i])
    THEN (IF cur = << >> THEN << >> ELSE << cur >>)
           \o SplitFrom(text, i + 1, << >>)
    ELSE SplitFrom(text, i + 1, Append(cur, text[i]))

\* mutant: the empty pieces are not discarded
Keywords_KeepEmpty(term) ==
    (IF term = << >> \/ IsWhiteSpace(term[1]) THEN << << >> >> ELSE << >>)
       \o SplitFrom(term, 1, << >>)

\* term.split(/\s+/).filter(Boolean)
Keywords(term) == SplitFrom(term, 1, << >>)

\* the 19 initial consonants of the Hangul syllables: U+3131 ... U+314E
Initials ==
    << 12593, 12594, 12596, 12599, 12600, 12601, 12609, 12610, 12611, 12613,
       12614, 12615, 12616, 12617, 12618, 12619, 12620, 12621, 12622 >>

\* mutant: the tense consonants are kept
PlainInitial_Keep(initial) == initial

\* the map of the tense consonants to their plain ones: map[initial] || initial
PlainInitial(initial) ==
    CASE initial = 12594 -> 12593
      [] initial = 12600 -> 12599
      [] initial = 12611 -> 12610
      [] initial = 12614 -> 12613
      [] initial = 12617 -> 12616
      [] OTHER -> initial

getInitial(name) ==
    IF name = EmptyText THEN EmptyText
    ELSE LET code == name[1]
         IN  IF code >= 44032 /\ code <= 55203
             THEN << PlainInitial(Initials[((code - 44032) \div 588) + 1]) >>
             ELSE IF code \in 65..90 \/ code \in 97..122
             THEN << ToUpperChar(code) >>
             ELSE << 79, 116, 104, 101, 114 >>

\* mutant: the name's initial is not compared with the keyword
checkKeyword_NoInitial(r, keyword) ==
    \/ Includes(ToLower(r.basicInfo.name), keyword)
    \/ Includes(ToLower(r.basicInfo.position), keyword)
    \/ (r.basicInfo.store # EmptyText
          /\ Includes(ToLower(r.basicInfo.store), keyword))
    \/ (r.basicInfo.date # EmptyText
          /\ Includes(r.basicInfo.date, keyword))
    \/ \E k \in AnswerKeys :
          /\ r.answers[k] # Undefined
          /\ Includes(ToLower(r.answers[k]), keyword)

checkKeyword(r, keyword) ==
    LET initial == ToLower(getInitial(r.basicInfo.name))
        matchesInitial == Len(keyword) = 1 /\ initial = keyword
    IN  \/ matchesInitial
        \/ Includes(ToLower(r.basicInfo.name), keyword)
        \/ Includes(ToLower(r.basicInfo.position), keyword)
        \/ (r.basicInfo.store # EmptyText
              /\ Includes(ToLower(r.basicInfo.store), keyword))
        \/ (r.basicInfo.date # EmptyText
              /\ Includes(r.basicInfo.date, keyword))
        \/ \E k \in AnswerKeys :
              /\ r.answers[k] # Undefined
              /\ Includes(ToLower(r.answers[k]), keyword)

\* mutant: one matching keyword is enough
EveryKeyword_Some(keywords, r) ==
    \E j \in 1..Len(keywords) : checkKeyword(r, keywords[j])

\* keywords.every(checkKeyword)
EveryKeyword(keywords, r) ==
    \A j \in 1..Len(keywords) : checkKeyword(r, keywords[j])

\* filteredRecords for the list `recs` and the search box's text `query`
FilteredRecords(recs, query) ==
    LET keywords == Keywords(ToLower(query))
        Keep(r) == Len(keywords) = 0 \/ EveryKeyword(keywords, r)
    IN  SelectSeq(recs, Keep)

\* the search box's onChange
SetSearchTerm(value) ==
    /\ view = "LIST"
    /\ searchTerm' = value
    /\ UNCHANGED << appVars, formVars, records, loading, worldVars,
                    asyncVars >>
    /\ NoAlert

\* a row of interview_records written by an earlier session
StoredRow(id, name, position, answer, time) ==
    [id |-> id,
     basic_info |->
        WithInterviewType([DefaultBasicInfo EXCEPT !.name = name,
                                                   !.position = position],
                          "STANDARD"),
     answers |-> [NoAnswers EXCEPT !["q1"] = answer],
     resume |-> NoResume, ai_summary |-> "",
     created_at |-> ToISOString(time), user_id |-> CurrentUser]

\* the rows the table may hold when the list opens
SearchRows ==
    { StoredRow(11, << 44608 >>, << 97 >>, Undefined, 1),
      StoredRow(12, << 44620 >>, << 65 >>, << 97, 49 >>, 1),
      StoredRow(13, << 65, 97 >>, EmptyText, << 12593 >>, 2),
      StoredRow(14, << 49 >>, << 97, 32, 65 >>, Undefined, 2) }

\* the characters typed into the search box
SearchChars == { 32, 49, 65, 97, 12593 }

InitSearch ==
    /\ InitApp /\ InitNoForm /\ InitList /\ InitAsync /\ InitProfiles
    /\ store \in { t \in SUBSET SearchRows : Cardinality(t) <= MaxRows }
    /\ now = 2
    /\ nextId = 1
    /\ env = [supabase |-> TRUE, apiKey |-> TRUE]

NextSearch ==
    \/ \E failed \in BOOLEAN : GetRecordsDone(failed)
    \/ \E c \in SearchChars :
         /\ Len(searchTerm) < MaxQueryLen
         /\ SetSearchTerm(Append(searchTerm, c))
    \/ /\ Len(searchTerm) > 0
       /\ SetSearchTerm(SubSeq(searchTerm, 1, Len(searchTerm) - 1))

SpecSearch == InitSearch /\ [][NextSearch]_vars

(* C10: for every record list and every query, the filtered list is the    *)
(* intersection of the lists obtained by filtering with each of the        *)
(* query's whitespace-separated tokens alone, in the original order.       *)
C10_FilterIsIntersection ==
    LET tokens == Keywords(searchTerm)
        InList(r, list) == \E n \in 1..Len(list) : list[n] = r
        InEvery(r) == \A j \in 1..Len(tokens) :
                          InList(r, FilteredRecords(records, tokens[j]))
    IN  FilteredRecords(records, searchTerm) = SelectSeq(records, InEvery)

\* a two-token query over two records, each token alone keeps a different
\* list and the query keeps the one record both tokens match
C10_Witness ==
    LET tokens == Keywords(searchTerm)
    IN  /\ Len(records) = 2
        /\ Len(tokens) = 2
        /\ Len(FilteredRecords(records, searchTerm)) = 1
        /\ FilteredRecords(records, tokens[1])
             # FilteredRecords(records, tokens[2])
        /\ Len(FilteredRecords(records, tokens[1])) = 2

(* C11: a query that is empty or holds only white space yields no tokens,  *)
(* and the filter then returns every record, in the list's order.          *)
C11_EmptyQueryKeepsAll ==
    (\A i \in 1..Len(searchTerm) : IsWhiteSpace(searchTerm[i]))
       => /\ Keywords(ToLower(searchTerm)) = << >>
          /\ FilteredRecords(records, searchTerm) = records

\* two records are listed and the search box holds two spaces
C11_Witness ==
    /\ Len(records) = 2
    /\ searchTerm = << 32, 32 >>
    /\ Len(FilteredRecords(records, searchTerm)) = 2

(***************************************************************************)
(* getInitial and the single-character search over one stored record.      *)
(***************************************************************************)
MaxInitialQueryLen == 1

\* the first code unit of the stored name: the first, two inner and the last
\* syllable of each of the 19 blocks of Hangul syllables, the code units
\* around the Hangul block, and Basic Latin letters, a digit and the code
\* units around the letters
NameChars ==
    { 44032 + 588 * b + o : b \in 0..18, o \in { 0, 27, 560, 587 } }
      \cup { 44031, 55204, 49, 64, 65, 90, 91, 96, 97, 122, 123 }

\* the characters typed into the search box: the 19 initial consonants,
\* Basic Latin letters and the space
InitialChars ==
    { Initials[n] : n \in 1..Len(Initials) } \cup { 32, 65, 90, 97, 122 }

InitInitial ==
    /\ InitApp /\ InitNoForm /\ InitList /\ InitAsync /\ InitProfiles
    /\ store \in { { StoredRow(11, << c >>, EmptyText, Undefined, 1) } :
                     c \in NameChars }
    /\ now = 2
    /\ nextId = 1
    /\ env = [supabase |-> TRUE, apiKey |-> TRUE]

NextInitial ==
    \/ \E failed \in BOOLEAN : GetRecordsDone(failed)
    \/ \E c \in InitialChars :
         /\ Len(searchTerm) < MaxInitialQueryLen
         /\ SetSearchTerm(Append(searchTerm, c))
    \/ /\ Len(searchTerm) > 0
       /\ SetSearchTerm(SubSeq(searchTerm, 1, Len(searchTerm) - 1))

SpecInitial == InitInitial /\ [][NextInitial]_vars

(* C12: a record with a non-empty name whose computed initial is a Hangul  *)
(* leading consonant or an uppercased Latin letter is in the filtered list *)
(* of the single-character query that equals this initial.                 *)
C12_InitialQueryIncludes ==
    \A n \in 1..Len(records) :
        LET name == records[n].basicInfo.name
        IN  (/\ name # EmptyText
             /\ Len(getInitial(name)) = 1
             /\ searchTerm = getInitial(name))
              => \E j \in 1..Len(FilteredRecords(records, searchTerm)) :
                    FilteredRecords(records, searchTerm)[j] = records[n]

\* the last syllable of the block of U+314E is listed and the search box
\* holds U+314E
C12_Witness ==
    /\ Len(records) = 1
    /\ records[1].basicInfo.name = << 55203 >>
    /\ searchTerm = << 12622 >>
    /\ Len(FilteredRecords(records, searchTerm)) = 1

(* C13: for a name that starts with a Hangul syllable whose leading        *)
(* consonant is one of the five tense consonants, getInitial is the plain  *)
(* consonant, the record matches the query of that plain consonant, and    *)
(* getInitial is a tense consonant for no name.                            *)
C13_TenseInitialsCollapse ==
    \A n \in 1..Len(records) :
        LET name == records[n].basicInfo.name
            code == name[1]
            block == (code - 44032) \div 588
            plain == CASE block = 1 -> 12593
                       [] block = 4 -> 12599
                       [] block = 8 -> 12610
                       [] block = 10 -> 12613
                       [] block = 13 -> 12616
                       [] OTHER -> 0
        IN  /\ getInitial(name)
                 \notin { << 12594 >>, << 12600 >>, << 12611 >>,
                          << 12614 >>, << 12617 >> }
            /\ (code \in 44032..55203 /\ plain # 0)
                 => /\ getInitial(name) = << plain >>
                    /\ searchTerm = << plain >>
                         => FilteredRecords(records, searchTerm) = records

\* the last syllable of the block of U+3149 is listed and found by U+3148
C13_Witness ==
    /\ Len(records) = 1
    /\ records[1].basicInfo.name = << 44032 + 588 * 13 + 587 >>
    /\ searchTerm = << 12616 >>
    /\ FilteredRecords(records, searchTerm) = records

(***************************************************************************)
(* The conditional sections of stage2 of a new STANDARD interview.         *)
(***************************************************************************)
InitSections ==
    /\ InitApp /\ InitNoForm /\ InitList /\ InitAsync /\ InitProfiles
    /\ store = {}
    /\ now = 1
    /\ nextId = MaxIds
    /\ env = [supabase |-> TRUE, apiKey |-> TRUE]

NextSections ==
    \/ HandleNewInterview("STANDARD")
    \/ \E id \in { "stage1", "stage2" } : SetActiveStageId(id)
    \/ SushiToggleClick
    \/ SushiCheckboxChange
    \/ \E q \in { "q3", "q4", "q5" } : ToggleQuestion(q)
    \/ \E q \in { "q3", "q4", "q5" } : \E v \in { EmptyText, TextX } :
         HandleAnswerChange(q, v)

SpecSections == InitSections /\ [][NextSections]_vars

(* C14: a section with the condition 'hasSushiExperience === true' (resp.  *)
(* '=== false') is rendered iff basicInfo.hasSushiExperience is true       *)
(* (resp. false); a section with no condition or an unrecognized one is    *)
(* always rendered; toggling the flag leaves the answers map unchanged.    *)
C14_SectionVisibility ==
    /\ [](view = "FORM" =>
            \A i \in 1..Len(activeStage.sections) :
               LET section == activeStage.sections[i]
                   shown == \E j \in 1..Len(RenderedSections) :
                               RenderedSections[j] = section
               IN  shown <=>
                     CASE section.condition = "hasSushiExperience === true"
                            -> basicInfo.hasSushiExperience
                       [] section.condition = "hasSushiExperience === false"
                            -> ~basicInfo.hasSushiExperience
                       [] OTHER -> TRUE)
    /\ [][(SushiToggleClick \/ SushiCheckboxChange)
            => answers' = answers]_vars

\* an answer typed into the section for experienced candidates is kept
\* while that section is hidden again, and the section with the
\* unrecognized condition is shown
C14_Witness ==
    /\ view = "FORM"
    /\ activeStageId = "stage2"
    /\ ~basicInfo.hasSushiExperience
    /\ answers["q3"] = TextX
    /\ answers["q4"] = TextX
    /\ ~IsRendered("s2a")
    /\ IsRendered("s2b")
    /\ IsRendered("s2c")

(***************************************************************************)
(* Access control: requests of any user against interview_records and      *)
(* profiles, and the list query of the signed-in user.                     *)
(***************************************************************************)
AccessIds == { 21, 22 }

\* the rows a request may carry and the table may hold
AccessRows ==
    { [StoredRow(id, name, EmptyText, Undefined, 1) EXCEPT !.user_id = u] :
        id \in AccessIds, name \in { TextA, TextX }, u \in Users }

InsertRequest(uid, row) ==
    /\ store' = InsertRecords(uid, store, row)
    /\ UNCHANGED << appVars, formVars, listVars, now, env, nextId, profiles,
                    asyncVars >>
    /\ NoAlert

UpdateRequest(uid, row) ==
    /\ store' = UpdateRecords(uid, store, row)
    /\ UNCHANGED << appVars, formVars, listVars, now, env, nextId, profiles,
                    asyncVars >>
    /\ NoAlert

DeleteRequest(uid, id) ==
    /\ store' = DeleteRecords(uid, store, id)
    /\ UNCHANGED << appVars, formVars, listVars, now, env, nextId, profiles,
                    asyncVars >>
    /\ NoAlert

UpdateProfileRequest(uid, id, role) ==
    /\ profiles' = UpdateProfiles(uid, profiles, id, role)
    /\ UNCHANGED << appVars, formVars, listVars, store, now, env, nextId,
                    asyncVars >>
    /\ NoAlert

InitAccess ==
    /\ InitApp /\ InitNoForm /\ InitList /\ InitAsync
    /\ profiles \in [Users -> Roles]
    /\ store \in { t \in SUBSET AccessRows :
                     \A r1, r2 \in t : r1.id = r2.id => r1 = r2 }
    /\ now = 2
    /\ nextId = MaxIds
    /\ env = [supabase |-> TRUE, apiKey |-> TRUE]

NextAccess ==
    \/ \E uid \in Users : \E row \in AccessRows : InsertRequest(uid, row)
    \/ \E uid \in Users : \E row \in AccessRows : UpdateRequest(uid, row)
    \/ \E uid \in Users : \E id \in AccessIds : DeleteRequest(uid, id)
    \/ \E uid \in Users : \E id \in Users : \E role \in Roles :
         UpdateProfileRequest(uid, id, role)
    \/ GetRecordsDone(FALSE)

SpecAccess == InitAccess /\ [][NextAccess]_vars

OwnRecords(uid, table) == { r \in table : r.user_id = uid }

\* C15: at every moment a manager selects exactly the rows it owns and an
\* admin selects every row (the list of the signed-in user holds only such
\* rows); a request of a manager inserts, updates or deletes only rows the
\* manager owns, and does so for every such row; a request of an admin
\* inserts, updates or deletes whatever row it names.
C15_AccessControl ==
    /\ [](\A uid \in Users :
            /\ profiles[uid] = "manager"
                 => SelectRecords(uid, store) = OwnRecords(uid, store)
            /\ profiles[uid] = "admin" => SelectRecords(uid, store) = store)
    /\ [][GetRecordsDone(FALSE) =>
            /\ profiles[CurrentUser] = "manager"
                 => /\ Len(records') = Cardinality(OwnRecords(CurrentUser, store))
                    /\ \A i \in 1..Len(records') :
                         \E r \in OwnRecords(CurrentUser, store) :
                            records'[i] = ListRecord(r)
            /\ profiles[CurrentUser] = "admin"
                 => Len(records') = Cardinality(store)]_vars
    /\ [][\A uid \in Users :
            /\ \A row \in AccessRows :
                 InsertRequest(uid, row) \/ UpdateRequest(uid, row) =>
                    /\ profiles[uid] = "manager"
                         => \A r \in (store \ store') \cup (store' \ store) :
                               r.user_id = uid
                    /\ profiles[uid] = "admin" => row \in store'
            /\ \A id \in AccessIds :
                 DeleteRequest(uid, id) =>
                    /\ profiles[uid] = "manager"
                         => \A r \in (store \ store') \cup (store' \ store) :
                               r.user_id = uid
                    /\ profiles[uid] = "admin"
                         => \A r \in store' : r.id # id]_vars
    /\ [][\A uid \in Users :
            profiles[uid] = "manager" =>
              /\ \A row \in OwnRecords(uid, AccessRows) :
                   /\ (\A r \in store : r.id # row.id)
                        => ENABLED (InsertRequest(uid, row) /\ row \in store')
                   /\ (\E r \in OwnRecords(uid, store) : r.id = row.id)
                        => ENABLED (UpdateRequest(uid, row) /\ row \in store')
              /\ \A r \in OwnRecords(uid, store) :
                   ENABLED (DeleteRequest(uid, r.id) /\ r \notin store')]_vars

\* a manager's request for a row of another user changed nothing while the
\* other user's rows stand, and the manager's list shows only its own row
C15_Witness ==
    /\ profiles["u1"] = "manager"
    /\ \E r \in store : r.user_id = "u2"
    /\ \E r \in store : r.user_id = "u1"
    /\ ~loading
    /\ Len(records) = 1
    /\ Cardinality(store) = 2

(***************************************************************************)
(* Writes of one form session: every handler that calls saveRecord, with   *)
(* room for two calls at a time.                                           *)
(***************************************************************************)
MaxWrites == 2

InitWrites ==
    /\ InitApp /\ InitNoForm /\ InitList /\ InitProfiles
    /\ ops = [i \in 1..MaxWrites |-> Idle]
    /\ aiCalls = 0
    /\ alertMsg = ALERT_NONE
    /\ store = {}
    /\ now = 1
    /\ nextId = 1
    /\ env = [supabase |-> TRUE, apiKey |-> TRUE]

NextWrites ==
    \/ HandleNewInterview("STANDARD")
    \/ SetName(TextA)
    \/ ToggleQuestion("q1")
    \/ HandleAnswerChange("q1", TextX)
    \/ SaveButtonClick
    \/ HandleNextStage
    \/ AnalyzeButtonClick
    \/ \E i \in 1..MaxWrites : GenerateContentDone(i, SUMMARY_TEXT, FALSE)
    \/ \E i \in 1..MaxWrites : GetUserDone(i, CurrentUser)
    \/ \E i \in 1..MaxWrites : \E ok \in BOOLEAN : UpsertDone(i, ok)

SpecWrites == InitWrites /\ [][NextWrites]_vars

\* the upsert requests of the open form's record the store has not answered
WritesInFlight ==
    { i \in DOMAIN ops :
        /\ IsWrite(ops[i])
        /\ ops[i].pc = "upsert"
        /\ ops[i].live
        /\ ops[i].rid = recordId }

\* C16: while a form is open, at most one store write of its session
\* (Save, the save-and-close of Advance at the last stage, the auto-save of
\* Analyze) is in flight.
C16_OneWriteInFlight ==
    view = "FORM" => Cardinality(WritesInFlight) <= 1

\* two saves of the same form, both started by the Advance button at the
\* last stage, are waiting for the store
C16_Witness ==
    /\ view = "FORM"
    /\ activeStageId = "stage2"
    /\ Cardinality(WritesInFlight) = 2
    /\ \A i \in WritesInFlight : ops[i].kind = "save" /\ ops[i].shouldClose

(***************************************************************************)
(* Opening a record of the list while its row may go away: the list, the   *)
(* edit click, the answer of getRecordById, and deletes from another tab   *)
(* of the same user.                                                       *)
(***************************************************************************)
EditRows == OwnRecords(CurrentUser, { r \in AccessRows : r.basic_info.name = TextA })

\* In SpecWrites the name only goes from empty to TextA and the answer to
\* q1 only from empty to TextX, so a record that lacks text the stored row
\* has was captured before the row's data.
CapturedBefore(record, row) ==
    \/ row.answers["q1"] = TextX /\ record.answers["q1"] # TextX
    \/ row.basic_info.name = TextA /\ record.basicInfo.name # TextA

\* C28: once an explicit Save has written its record (which closes the
\* form and leaves the Analyze of that form running detached), the write of
\* that Analyze does not store answers or basicInfo captured before the
\* Save.
C28_SaveNotOverwrittenByOlder ==
    [][\A i \in DOMAIN ops :
         (/\ IsWrite(ops[i]) /\ ops[i].kind = "analyze"
          /\ ops[i].pc = "upsert" /\ ~ops[i].live
          /\ store' # store)
           => \A r \in store :
                r.id = ops[i].record.id => ~CapturedBefore(ops[i].record, r)]_vars

\* the Save has stored TextX and closed the form, and the Analyze started
\* before TextX was typed is about to write its own snapshot to the same row
C28_Witness ==
    /\ view = "LIST"
    /\ \E i \in DOMAIN ops :
         /\ IsWrite(ops[i]) /\ ops[i].kind = "analyze"
         /\ ops[i].pc = "upsert" /\ ~ops[i].live
         /\ \E r \in store : /\ r.id = ops[i].record.id
                             /\ r.answers["q1"] = TextX
                             /\ ops[i].record.answers["q1"] # TextX

InitEdit ==
    /\ InitApp /\ InitNoForm /\ InitList /\ InitAsync /\ InitProfiles
    /\ store \in { t \in SUBSET EditRows : t # {} }
    /\ now = 2
    /\ nextId = 1
    /\ env = [supabase |-> TRUE, apiKey |-> TRUE]

NextEdit ==
    \/ \E failed \in BOOLEAN : GetRecordsDone(failed)
    \/ \E k \in 1..Len(records) : HandleEditInterview(records[k])
    \/ \E i \in 1..MaxOps : \E failed \in BOOLEAN : GetRecordByIdDone(i, failed)
    \/ \E id \in AccessIds : DeleteRequest(CurrentUser, id)
    \/ HandleNewInterview("DEPTH")
    \/ SetName(TextX)
    \/ HandleCancel
    \/ LogoClick

SpecEdit == InitEdit /\ [][NextEdit]_vars

\* C17: when getRecordById fails or finds no row, handleEditInterview leaves
\* the view and selectedRecord as they are and shows the blocking message:
\* from the list, the view stays LIST and no record is selected by it.
C17_FailedLoadStaysInList ==
    [][\A i \in 1..MaxOps :
         \/ GetRecordByIdDone(i, TRUE)
         \/ /\ GetRecordByIdDone(i, FALSE)
            /\ \A r \in store : r.id # ops[i].rid
         => /\ view' = view
            /\ selectedRecord' = selectedRecord
            /\ view = "LIST" => view' = "LIST" /\ UNCHANGED listVars
            /\ alertMsg' = ALERT_LOAD_NOT_FOUND]_vars

\* the row of a listed record was deleted elsewhere, the edit click found
\* nothing, and the list is still shown with no record selected
C17_Witness ==
    /\ alertMsg = ALERT_LOAD_NOT_FOUND
    /\ view = "LIST"
    /\ selectedRecord = NoRecord
    /\ \E k \in 1..Len(records) : \A r \in store : r.id # records[k].id

(***************************************************************************)
(* Deleting a record from the list                                         *)
(***************************************************************************)
\* prev.filter(r => r.id !== id)
WithoutId(list, id) == SelectSeq(list, LAMBDA r : r.id # id)

\* handleDelete up to its await, from the delete button of a card;
\* confirmed is what confirm(...) returned
HandleDelete(id, confirmed) ==
    /\ view = "LIST"
    /\ \E k \in 1..Len(FilteredRecords(records, searchTerm)) :
         FilteredRecords(records, searchTerm)[k].id = id
    /\ IF confirmed
       THEN /\ HasFreeSlot
            /\ ops' = [ops EXCEPT ![FreeSlot] =
                         [kind |-> "delete", pc |-> "delete", live |-> TRUE,
                          cancelled |-> FALSE, rid |-> id]]
       ELSE ops' = ops
    /\ UNCHANGED << appVars, formVars, listVars, worldVars, aiCalls >>
    /\ NoAlert

\* deleteRecord has answered: with an error it throws and handleDelete
\* alerts; without one the record leaves the list, if the list that asked
\* is still there
DeleteRecordDone(i, failed) ==
    /\ ops[i] # Idle
    /\ ops[i].kind = "delete"
    /\ IF failed
       THEN /\ store' = store
            /\ records' = records
            /\ alertMsg' = ALERT_DELETE_FAILED
       ELSE /\ store' = DeleteRecords(CurrentUser, store, ops[i].rid)
            /\ records' = IF ops[i].live THEN WithoutId(records, ops[i].rid)
                          ELSE records
            /\ NoAlert
    /\ ops' = [ops EXCEPT ![i] = Idle]
    /\ UNCHANGED << appVars, formVars, loading, searchTerm, now, env, nextId,
                    profiles, aiCalls >>

InitDelete ==
    /\ InitApp /\ InitNoForm /\ InitList /\ InitProfiles
    /\ ops = [i \in 1..MaxWrites |-> Idle]
    /\ aiCalls = 0
    /\ alertMsg = ALERT_NONE
    /\ store \in { t \in SUBSET EditRows : t # {} }
    /\ now = 2
    /\ nextId = 1
    /\ env = [supabase |-> TRUE, apiKey |-> TRUE]

NextDelete ==
    \/ \E failed \in BOOLEAN : GetRecordsDone(failed)
    \/ \E id \in AccessIds : \E confirmed \in BOOLEAN : HandleDelete(id, confirmed)
    \/ \E i \in 1..MaxWrites : \E failed \in BOOLEAN : DeleteRecordDone(i, failed)
    \/ HandleNewInterview("DEPTH")
    \/ SetName(TextX)
    \/ HandleCancel

SpecDelete == InitDelete /\ [][NextDelete]_vars

\* C18: a delete request is issued only by a confirmed handleDelete, and a
\* declined one changes neither the list nor the store; a failed delete
\* leaves the list and the store as they are; a successful one leaves the
\* store without the row of that id and with every other row, and the list
\* on the screen without the record of that id and with every other record.
C18_DeleteOnlyOnSuccess ==
    [][/\ \A i \in DOMAIN ops :
            ops[i] = Idle /\ ops'[i] # Idle /\ ops'[i].kind = "delete"
               => HandleDelete(ops'[i].rid, TRUE)
       /\ \A id \in AccessIds :
            HandleDelete(id, FALSE) => UNCHANGED << records, store, ops >>
       /\ \A i \in DOMAIN ops :
            /\ DeleteRecordDone(i, TRUE)
                 => UNCHANGED << records, store >>
            /\ DeleteRecordDone(i, FALSE)
                 => /\ store' = { r \in store : r.id # ops[i].rid }
                    /\ view = "LIST" => records' = WithoutId(records, ops[i].rid)
                    /\ view = "LIST" =>
                         \A k \in 1..Len(records') : records'[k].id # ops[i].rid]_vars

\* the store has deleted the row after the user left the list and came back:
\* the list on the screen still holds the record
C18_Witness ==
    /\ view = "LIST"
    /\ ~loading
    /\ \A i \in DOMAIN ops : ops[i] = Idle
    /\ \E k \in 1..Len(records) : \A r \in store : r.id # records[k].id

(***************************************************************************)
(* Stage navigation of an open form: the two big buttons, the stage tabs,  *)
(* and the save-and-close the next-stage button starts at the last stage.  *)
(***************************************************************************)
StageIds == { "stage1", "stage2", "depth1", "depth2", "depth3" }

InitStages ==
    /\ InitApp /\ InitNoForm /\ InitList /\ InitAsync /\ InitProfiles
    /\ store = {}
    /\ now = 1
    /\ nextId = 1
    /\ env = [supabase |-> TRUE, apiKey |-> TRUE]

NextStages ==
    \/ \E type \in { "STANDARD", "DEPTH" } : HandleNewInterview(type)
    \/ HandleCancel
    \/ SetName(TextA)
    \/ HandleNextStage
    \/ HandlePrevStage
    \/ \E id \in StageIds : SetActiveStageId(id)
    \/ \E q \in { "q1", "dq3" } : ToggleQuestion(q)
    \/ \E q \in { "q1", "dq3" } : HandleAnswerChange(q, TextX)
    \/ \E i \in 1..MaxOps : \E u \in { CurrentUser, NoUser } : GetUserDone(i, u)
    \/ \E i \in 1..MaxOps : \E ok \in BOOLEAN : UpsertDone(i, ok)

SpecStages == InitStages /\ [][NextStages]_vars

\* C19: the next-stage button moves to the stage right after the active one
\* when there is one; at the last stage it leaves activeStageId as it is and
\* calls handleSave(true), and the form that save was started from closes
\* only when the save has written the record.
C19_AdvanceOrSaveAndClose ==
    [][/\ HandleNextStage =>
            IF activeStageIndex < Len(stages) - 1
            THEN /\ activeStageId' = stages[activeStageIndex + 2].id
                 /\ UNCHANGED << view, ops, store >>
            ELSE /\ activeStageId' = activeStageId
                 /\ HandleSave(TRUE)
       /\ \A i \in DOMAIN ops :
            /\ ops[i] # Idle /\ ops[i].kind = "save" /\ ops[i].shouldClose
            /\ ops'[i] = Idle
            /\ view = "FORM" /\ view' = "LIST"
            => /\ UpsertDone(i, TRUE)
               /\ \E r \in store' : r.id = ops[i].rid]_vars

\* the form has closed after the next-stage button at the last stage while
\* the table holds no record
C19_Witness ==
    /\ view = "LIST"
    /\ alertMsg = ALERT_LOGIN_REQUIRED
    /\ store = {}
    /\ \A i \in DOMAIN ops : ops[i] = Idle

\* C20: the previous-stage button moves to the stage right before the active
\* one and cannot act at the first stage; whatever the next-stage button,
\* the previous-stage button and the tabs have done, activeStageId is the id
\* of a stage of the form and activeStageIndex is within 0..length-1.
C20_ActiveStageInSequence ==
    /\ [](view = "FORM" =>
            /\ \E i \in 1..Len(stages) : stages[i].id = activeStageId
            /\ activeStageIndex \in 0..(Len(stages) - 1)
            /\ activeStageIndex = 0 => ~ENABLED HandlePrevStage)
    /\ [][HandlePrevStage =>
            /\ activeStageIndex > 0
            /\ activeStageId' = stages[activeStageIndex].id
            /\ activeStageIndex' = activeStageIndex - 1]_vars

\* the form stands at its second stage again, with an answer typed at its
\* third
C20_Witness ==
    /\ view = "FORM"
    /\ currentStages = "DEPTH"
    /\ activeStageId = "depth2"
    /\ answers["dq3"] = TextX

(***************************************************************************)
(* Expanded questions: a stored record with an answer is opened, or a new  *)
(* form, and the user answers, toggles and moves between the stages.       *)
(***************************************************************************)
ExpandQuestions == { "q1", "q3" }

InitExpand ==
    /\ InitApp /\ InitNoForm /\ InitList /\ InitAsync /\ InitProfiles
    /\ store = { StoredRow(11, TextA, EmptyText, TextX, 1) }
    /\ now = 2
    /\ nextId = 1
    /\ env = [supabase |-> TRUE, apiKey |-> TRUE]

NextExpand ==
    \/ GetRecordsDone(FALSE)
    \/ \E k \in 1..Len(records) : HandleEditInterview(records[k])
    \/ \E i \in 1..MaxOps : GetRecordByIdDone(i, FALSE)
    \/ HandleNewInterview("STANDARD")
    \/ HandleCancel
    \/ HandleNextStage
    \/ HandlePrevStage
    \/ \E id \in { "stage1", "stage2" } : SetActiveStageId(id)
    \/ SushiToggleClick
    \/ \E q \in ExpandQuestions : ToggleQuestion(q)
    \/ \E q \in ExpandQuestions : \E v \in { EmptyText, TextX } :
         HandleAnswerChange(q, v)

SpecExpand == InitExpand /\ [][NextExpand]_vars

\* the questions of the stage with this id that have a non-empty answer
AnsweredOfStage(stgs, id, ans) ==
    { q \in QuestionIds :
        /\ \E s \in 1..Len(stgs) :
             /\ stgs[s].id = id
             /\ \E i \in 1..Len(stgs[s].sections) :
                  \E j \in 1..Len(stgs[s].sections[i].questions) :
                     stgs[s].sections[i].questions[j] = q
        /\ ans[q] # Undefined
        /\ Len(ans[q]) > 0 }

\* C21: whenever a stage is entered - the first stage when the form opens,
\* or another stage by the next button, the previous button or a tab - the
\* expanded set becomes what it was (empty on opening) together with every
\* question of the entered stage that has a non-empty answer.
C21_StageEntryExpandsAnswered ==
    [][/\ (view = "LIST" /\ view' = "FORM")
            => expandedQuestions' =
                 AnsweredOfStage(StagesOf(currentStages'), activeStageId', answers')
       /\ (view = "FORM" /\ view' = "FORM" /\ activeStageId' # activeStageId)
            => /\ expandedQuestions' =
                    expandedQuestions \cup
                      AnsweredOfStage(stages, activeStageId', answers)
               /\ expandedQuestions \subseteq expandedQuestions'
               /\ answers' = answers]_vars

\* back at the second stage: the answered question of a section that is
\* hidden now was expanded, and the one collapsed by hand before stays open
C21_Witness ==
    /\ view = "FORM"
    /\ activeStageId = "stage2"
    /\ answers["q3"] = TextX /\ answers["q1"] = TextX
    /\ ~basicInfo.hasSushiExperience
    /\ expandedQuestions = { "q1", "q3" }
    /\ selectedRecord # NoRecord

(***************************************************************************)
(* Keyboard navigation between the answer fields                           *)
(***************************************************************************)
RECURSIVE FlatQuestions(_)
\* .flatMap(s => s.questions || [])
FlatQuestions(sections) ==
    IF sections = << >> THEN << >>
    ELSE Head(sections).questions \o FlatQuestions(Tail(sections))

\* mutant: the questions of every section of the stage, hidden or not
VisibleQuestions_AllSections == FlatQuestions(activeStage.sections)

\* visibleQuestions of the onKeyDown handler
VisibleQuestions ==
    FlatQuestions(SelectSeq(activeStage.sections,
                            LAMBDA s : SectionVisible(s, basicInfo)))

\* visibleQuestions.findIndex(vq => vq.id === q.id), counted from 1
CurrentIndex(q) ==
    CHOOSE k \in 1..Len(VisibleQuestions) :
        /\ VisibleQuestions[k] = q
        /\ \A j \in 1..(k - 1) : VisibleQuestions[j] # q

\* Tab (shiftKey or not) is pressed in the answer field of question q
HandleKeyDownTab(q, shiftKey) ==
    /\ view = "FORM"
    /\ q \in expandedQuestions
    /\ \E i \in 1..Len(RenderedSections) :
         \E j \in 1..Len(RenderedSections[i].questions) :
           RenderedSections[i].questions[j] = q
    /\ IF ~shiftKey /\ CurrentIndex(q) < Len(VisibleQuestions)
       THEN /\ expandedQuestions' =
                 expandedQuestions \cup { VisibleQuestions[CurrentIndex(q) + 1] }
            /\ pendingFocusId' = VisibleQuestions[CurrentIndex(q) + 1]
       ELSE IF shiftKey /\ CurrentIndex(q) > 1
       THEN /\ expandedQuestions' =
                 expandedQuestions \cup { VisibleQuestions[CurrentIndex(q) - 1] }
            /\ pendingFocusId' = VisibleQuestions[CurrentIndex(q) - 1]
       ELSE UNCHANGED << expandedQuestions, pendingFocusId >>
    /\ UNCHANGED << appVars, basicInfo, answers, resume, aiSummary,
                    activeStageId, isSaveLoading, isAnalyzeLoading, recordId,
                    listVars, worldVars, asyncVars >>
    /\ NoAlert

\* the 50 ms timer of the pendingFocusId effect: focus, setPendingFocusId(null)
PendingFocusTimeout ==
    /\ view = "FORM"
    /\ pendingFocusId # ""
    /\ pendingFocusId' = ""
    /\ UNCHANGED << appVars, basicInfo, answers, resume, aiSummary,
                    expandedQuestions, activeStageId, isSaveLoading,
                    isAnalyzeLoading, recordId, listVars, worldVars, asyncVars >>
    /\ NoAlert

InitKeys ==
    /\ InitApp /\ InitNoForm /\ InitList /\ InitAsync /\ InitProfiles
    /\ store = {}
    /\ now = 1
    /\ nextId = MaxIds
    /\ env = [supabase |-> TRUE, apiKey |-> TRUE]

NextKeys ==
    \/ HandleNewInterview("STANDARD")
    \/ \E id \in { "stage1", "stage2" } : SetActiveStageId(id)
    \/ SushiToggleClick
    \/ \E q \in QuestionIds : ToggleQuestion(q)
    \/ \E q \in QuestionIds : \E shiftKey \in BOOLEAN : HandleKeyDownTab(q, shiftKey)
    \/ PendingFocusTimeout

SpecKeys == InitKeys /\ [][NextKeys]_vars

\* the questions of the rendered sections of the active stage, in order
ShownQuestions == FlatQuestions(RenderedSections)

\* C22: Tab in the field of question q targets the question after q in the
\* list of the shown questions of the active stage, Shift+Tab the one before
\* it, and each adds its target to the expanded set; at the last (Tab) or
\* first (Shift+Tab) shown question nothing changes.  The target is a
\* question of a rendered section of the active stage, activeStageId does
\* not change and no question is collapsed.
C22_TabStaysInVisibleStage ==
    [][\A q \in QuestionIds : \A shiftKey \in BOOLEAN :
         HandleKeyDownTab(q, shiftKey) =>
           LET k == CHOOSE n \in 1..Len(ShownQuestions) : ShownQuestions[n] = q
               t == IF shiftKey THEN k - 1 ELSE k + 1
           IN  /\ activeStageId' = activeStageId
               /\ expandedQuestions \subseteq expandedQuestions'
               /\ IF t \in 1..Len(ShownQuestions)
                  THEN /\ pendingFocusId' = ShownQuestions[t]
                       /\ expandedQuestions' =
                            expandedQuestions \cup { ShownQuestions[t] }
                       /\ \E i \in 1..Len(activeStage.sections) :
                            /\ IsRendered(activeStage.sections[i].id)
                            /\ \E j \in 1..Len(activeStage.sections[i].questions) :
                                 activeStage.sections[i].questions[j] = pendingFocusId'
                  ELSE UNCHANGED << expandedQuestions, pendingFocusId >>]_vars

\* Tab from the question of the first section of the second stage went past
\* the hidden section to the question of the third
C22_Witness ==
    /\ view = "FORM"
    /\ activeStageId = "stage2"
    /\ basicInfo.hasSushiExperience
    /\ pendingFocusId = "q5"
    /\ expandedQuestions = { "q3", "q5" }

(***************************************************************************)
(* Analyze with its asynchronous calls answered: the text-generation       *)
(* service, getUser and the upsert each answer a call that waits for them. *)
(***************************************************************************)
AnalyzeCallAnswered ==
    \E i \in 1..MaxOps :
        \/ \E text \in { "", SUMMARY_TEXT } : \E threw \in BOOLEAN :
             GenerateContentDone(i, text, threw)
        \/ \E u \in { CurrentUser, NoUser } : GetUserDone(i, u)
        \/ \E ok \in BOOLEAN : UpsertDone(i, ok)

\* the fixed strings analyzeInterview returns instead of a model's summary
FailureSummaries ==
    { SUMMARY_NO_KEY, SUMMARY_NOTHING, SUMMARY_EMPTY_RESPONSE, SUMMARY_ERROR }

\* C29: a stored record whose aiSummary is the text of a successful
\* analysis keeps it when a later Analyze ends with one of the fixed
\* failure or placeholder strings: no write replaces the stored summary
\* with such a string.
C29_FailedAnalysisKeepsSummary ==
    [][\A r \in store :
         r.ai_summary = SUMMARY_TEXT
           => \A r2 \in store' :
                r2.id = r.id => r2.ai_summary \notin FailureSummaries]_vars

\* the row holds the summary of a successful analysis and the auto-save of
\* a later, failed Analyze of the same record is about to be written
C29_Witness ==
    /\ view = "FORM"
    /\ aiSummary \in FailureSummaries
    /\ \E i \in 1..MaxOps :
         /\ IsWrite(ops[i]) /\ ops[i].kind = "analyze" /\ ops[i].pc = "upsert"
         /\ ops[i].record.aiSummary = aiSummary
         /\ \E r \in store : /\ r.id = ops[i].record.id
                             /\ r.ai_summary = SUMMARY_TEXT

SpecAnalyzeLive ==
    InitAnalyze /\ [][NextAnalyze]_vars /\ WF_vars(AnalyzeCallAnswered)

\* C25: once Analyze has set isAnalyzeLoading, it becomes false again,
\* whatever the text-generation service and the auto-save answer; meanwhile
\* the fields of the form take input; and when the service throws, the
\* summary of the form is the fixed error string.
C25_AnalyzeReleasesControl ==
    /\ (view = "FORM" /\ isAnalyzeLoading) ~> ~isAnalyzeLoading
    /\ [](view = "FORM" /\ isAnalyzeLoading => ENABLED SetName(TextA))
    /\ [][\A i \in 1..MaxOps :
            /\ (\E text \in { "", SUMMARY_TEXT } : GenerateContentDone(i, text, TRUE))
                 => aiSummary' = SUMMARY_ERROR
            /\ (ops[i] # Idle /\ ops[i].kind = "analyze" /\ ops[i].live
                /\ ops'[i] = Idle)
                 => ~isAnalyzeLoading']_vars

\* the service has thrown and the auto-save has failed: the form shows the
\* error string and the control is enabled again
C25_Witness ==
    /\ view = "FORM"
    /\ aiSummary = SUMMARY_ERROR
    /\ alertMsg = ALERT_SAVE_FAILED
    /\ ~isAnalyzeLoading
    /\ store = {}

(***************************************************************************)
(* Owners: the signed-in user, a manager or an admin, opens a record of    *)
(* another manager from the list, edits it and saves it.                   *)
(***************************************************************************)
OwnerRows ==
    { [StoredRow(id, TextA, EmptyText, Undefined, 1) EXCEPT !.user_id = "u2"] :
        id \in AccessIds }

InitOwner ==
    /\ InitApp /\ InitNoForm /\ InitList /\ InitAsync
    /\ profiles \in { p \in [Users -> Roles] : p["u2"] = "manager" }
    /\ store \in { t \in SUBSET OwnerRows : t # {} }
    /\ now = 2
    /\ nextId = 1
    /\ env = [supabase |-> TRUE, apiKey |-> TRUE]

NextOwner ==
    \/ GetRecordsDone(FALSE)
    \/ \E k \in 1..Len(records) : HandleEditInterview(records[k])
    \/ \E i \in 1..MaxOps : GetRecordByIdDone(i, FALSE)
    \/ SetName(TextX)
    \/ SaveButtonClick
    \/ HandleNextStage
    \/ HandleCancel
    \/ \E i \in 1..MaxOps : GetUserDone(i, CurrentUser)
    \/ \E i \in 1..MaxOps : \E ok \in BOOLEAN : UpsertDone(i, ok)

SpecOwner == InitOwner /\ [][NextOwner]_vars

\* C26: a row of the table keeps its user_id whatever is saved: the row
\* with the same id after a step has the owner it had before.
C26_SaveKeepsOwner ==
    [][\A r \in store : \A r2 \in store' :
         r2.id = r.id => r2.user_id = r.user_id]_vars

\* the admin has saved a record of the manager: the row is the admin's now
\* and the manager selects nothing
C26_Witness ==
    /\ profiles["u1"] = "admin"
    /\ \E r \in store : r.user_id = "u1" /\ r.basic_info.name = TextX
    /\ SelectRecords("u2", store) = {}

(***************************************************************************)
(* The auto-save of Analyze next to an explicit Save: a new form with a    *)
(* resume attached and an answer typed, analyzed while time passes.        *)
(***************************************************************************)
\* a { fileName, fileData } the FileReader has produced
ResumeFile == "cv.pdf"

InitAutoSave ==
    /\ InitApp /\ InitNoForm /\ InitList /\ InitAsync /\ InitProfiles
    /\ store = {}
    /\ now = 1
    /\ nextId = 1
    /\ env = [supabase |-> TRUE, apiKey |-> TRUE]

NextAutoSave ==
    \/ HandleNewInterview("STANDARD")
    \/ SetName(TextA)
    \/ HandleFileChange(ResumeFile)
    \/ ClearResume
    \/ ToggleQuestion("q1")
    \/ \E v \in { TextA, TextX } : HandleAnswerChange("q1", v)
    \/ AnalyzeButtonClick
    \/ SaveButtonClick
    \/ \E i \in 1..MaxOps : GenerateContentDone(i, SUMMARY_TEXT, FALSE)
    \/ \E i \in 1..MaxOps : GetUserDone(i, CurrentUser)
    \/ \E i \in 1..MaxOps : \E ok \in BOOLEAN : UpsertDone(i, ok)
    \/ Tick

SpecAutoSave == InitAutoSave /\ [][NextAutoSave]_vars

\* C27: when handleAnalyze calls saveRecord, the record it passes is the
\* record handleSave would build at that moment, but for aiSummary: the
\* same id, basicInfo with interviewType, answers, resume and createdAt.
C27_AutoSaveEqualsSave ==
    [][\A i \in 1..MaxOps :
         (/\ IsWrite(ops'[i]) /\ ops'[i].kind = "analyze"
          /\ ops'[i].pc = "getUser" /\ ops'[i].live
          /\ (ops[i] = Idle \/ ops[i].pc = "ai"))
           => /\ ops'[i].record.id = SaveRecord'.id
              /\ ops'[i].record.basicInfo = SaveRecord'.basicInfo
              /\ ops'[i].record.answers = SaveRecord'.answers
              /\ ops'[i].record.resume = SaveRecord'.resume
              /\ ops'[i].record.createdAt = SaveRecord'.createdAt]_vars

\* the resume is attached in the form and the analysis is stored, but the
\* stored row has no resume
C27_Witness ==
    /\ view = "FORM"
    /\ resume = ResumeFile
    /\ aiSummary = SUMMARY_TEXT
    /\ ~isAnalyzeLoading /\ ~isSaveLoading
    /\ \E r \in store : /\ r.id = recordId
                        /\ r.ai_summary = SUMMARY_TEXT
                        /\ r.resume = NoResume

(***************************************************************************)
(* Edit clicks on records of both interview types while the loads of       *)
(* earlier clicks are still pending.                                       *)
(***************************************************************************)
LoadRows ==
    { StoredRow(11, TextA, EmptyText, TextX, 1),
      [StoredRow(12, TextX, EmptyText, EmptyText, 2)
         EXCEPT !.basic_info.interviewType = "DEPTH"] }

InitLoads ==
    /\ InitApp /\ InitNoForm /\ InitList /\ InitProfiles
    /\ ops = [i \in 1..MaxWrites |-> Idle]
    /\ aiCalls = 0
    /\ alertMsg = ALERT_NONE
    /\ store = LoadRows
    /\ now = 2
    /\ nextId = 1
    /\ env = [supabase |-> TRUE, apiKey |-> TRUE]

NextLoads ==
    \/ GetRecordsDone(FALSE)
    \/ \E k \in 1..Len(records) : HandleEditInterview(records[k])
    \/ \E i \in 1..MaxWrites : \E failed \in BOOLEAN : GetRecordByIdDone(i, failed)
    \/ SetName(TextA)
    \/ HandleNextStage
    \/ HandlePrevStage
    \/ HandleCancel

SpecLoads == InitLoads /\ [][NextLoads]_vars

\* C30: whenever the form is shown for editing, the stage list and the
\* interview type it is given are those of the record that was loaded.
C30_FormStagesOfLoadedRecord ==
    (view = "FORM" /\ selectedRecord # NoRecord)
      => /\ currentInterviewType = selectedRecord.basicInfo.interviewType
         /\ StagesOf(currentStages)
              = StagesOf(selectedRecord.basicInfo.interviewType)

\* the form has been opened on the STANDARD record while the click on the
\* DEPTH record, whose load is still pending, has set the stages
C30_Witness ==
    /\ view = "FORM"
    /\ selectedRecord # NoRecord
    /\ selectedRecord.id = 11
    /\ recordId = 11
    /\ currentStages = "DEPTH"
    /\ \E i \in DOMAIN ops : ops[i] # Idle /\ ops[i].kind = "edit" /\ ops[i].rid = 12

=============================================================================
